---- MODULE Spec2Model ----
(***************************************************************************)
(* State-machine model of termion-chess (src/src/main.rs): the Game        *)
(* struct, the move generator (find_moves, check_for_pin, is_attacked,     *)
(* filter_legal_moves), move application (handle_click_or_enter and its    *)
(* helpers), promotion and the terminal-state detector (check_for_mate).   *)
(*                                                                         *)
(* Coordinates are the program's: x is the file (a = 0 .. h = 7), y is the *)
(* board row (row 0 = rank 8 .. row 7 = rank 1); a square is board[y][x]   *)
(* and a coordinate pair [x, y] is the tuple <<x, y>>.  Colours are        *)
(* 0 = White, 1 = Black, 2 = none.                                         *)
(***************************************************************************)
EXTENDS Integers, Sequences, FiniteSets, TLC

Abs(n) == IF n < 0 THEN -n ELSE n

Contains(s, e) == \E i \in 1..Len(s) : s[i] = e

OnBoard(tx, ty) == tx >= 0 /\ tx <= 7 /\ ty >= 0 /\ ty <= 7

Coords == 0..7

(***************************************************************************)
(* enum Move, in declaration order (Move::iter()).                         *)
(***************************************************************************)
MoveDirs ==
  <<"U", "D", "R", "L", "UL", "DL", "UR", "DR",
    "RRU", "RUU", "RRD", "RDD", "LUU", "LLU", "LLD", "LDD">>

get_change_from_move(m) ==
  CASE m = "U"   -> <<0, -1>>
    [] m = "D"   -> <<0, 1>>
    [] m = "R"   -> <<1, 0>>
    [] m = "L"   -> <<-1, 0>>
    [] m = "UR"  -> <<1, -1>>
    [] m = "UL"  -> <<-1, -1>>
    [] m = "DR"  -> <<1, 1>>
    [] m = "DL"  -> <<-1, 1>>
    [] m = "RRU" -> <<2, -1>>
    [] m = "RUU" -> <<1, -2>>
    [] m = "RRD" -> <<2, 1>>
    [] m = "RDD" -> <<1, 2>>
    [] m = "LLU" -> <<-2, -1>>
    [] m = "LUU" -> <<-1, -2>>
    [] m = "LLD" -> <<-2, 1>>
    [] m = "LDD" -> <<-1, 2>>

(***************************************************************************)
(* Square::new: the direction list of a piece kind and colour.  The icon   *)
(* is rendering only and is not modelled.                                  *)
(***************************************************************************)
SquareMoves(piece, color) ==
  CASE piece = "King"   -> <<"U", "D", "L", "R", "UR", "UL", "DR", "DL">>
    [] piece = "Queen"  -> <<"U", "D", "L", "R", "UR", "UL", "DR", "DL">>
    [] piece = "Rook"   -> <<"U", "D", "L", "R">>
    [] piece = "Bishop" -> <<"UR", "UL", "DR", "DL">>
    [] piece = "Knight" ->
         <<"RRU", "RUU", "RRD", "RDD", "LLU", "LUU", "LLD", "LDD">>
    [] piece = "Pawn"   ->
         IF color = 0 THEN <<"U", "UL", "UR">> ELSE <<"D", "DL", "DR">>
    [] OTHER            -> <<>>

Square(piece, color) ==
  [piece |-> piece, color |-> color, moves |-> SquareMoves(piece, color),
   is_valid_move |-> FALSE]

EmptySquare == Square("Empty", 2)

(***************************************************************************)
(* place_piece and empty_square on a board value.                          *)
(***************************************************************************)
place_piece(b, p, color, px, py) == [b EXCEPT ![py][px] = Square(p, color)]

\* A slip: the piece is taken off the square, its colour and directions stay.
empty_square_keep_colour(b, px, py) ==
  IF b[py][px].piece # "Empty" THEN [b EXCEPT ![py][px].piece = "Empty"] ELSE b

empty_square(b, px, py) ==
  IF b[py][px].piece # "Empty" THEN [b EXCEPT ![py][px] = EmptySquare] ELSE b

(***************************************************************************)
(* init_board.                                                             *)
(***************************************************************************)
BackRank ==
  <<"Rook", "Knight", "Bishop", "Queen", "King", "Bishop", "Knight", "Rook">>

init_board ==
  [r \in Coords |->
    [c \in Coords |->
      CASE r = 0 -> Square(BackRank[c + 1], 1)
        [] r = 1 -> Square("Pawn", 1)
        [] r = 6 -> Square("Pawn", 0)
        [] r = 7 -> Square(BackRank[c + 1], 0)
        [] OTHER -> EmptySquare]]

(***************************************************************************)
(* is_attacked: one ray per direction, at most 7 steps; the 16 rays only   *)
(* read the board, so the parallel filter_map is their disjunction.        *)
(* AttackRay(b, t, dir, tx, ty, i) is the loop body from iteration i with  *)
(* the walk standing on (tx, ty).                                          *)
(***************************************************************************)
RECURSIVE AttackRay(_, _, _, _, _, _)
AttackRay(b, t, dir, tx, ty, i) ==
  IF i >= 7 THEN FALSE
  ELSE
    LET change == get_change_from_move(dir)
        nx == tx + change[1]
        ny == ty + change[2]
    IN IF ~OnBoard(nx, ny) THEN FALSE
       ELSE IF b[ny][nx].color = t THEN FALSE
       ELSE
         LET sq == b[ny][nx]
         IN CASE sq.piece = "Empty" -> AttackRay(b, t, dir, nx, ny, i + 1)
              [] sq.piece \in {"King", "Knight"} ->
                   i = 0 /\ Contains(sq.moves, dir)
              [] sq.piece = "Pawn" ->
                   i = 0 /\ (IF t = 0 THEN dir \in {"UL", "UR"}
                                      ELSE dir \in {"DL", "DR"})
              [] OTHER -> Contains(sq.moves, dir)

\* A slip: only the eight line directions are scanned.
is_attacked_lines_only(g, ax, ay) ==
  \E k \in 1..8 : AttackRay(g.board, g.turn, MoveDirs[k], ax, ay, 0)

is_attacked(g, ax, ay) ==
  \E k \in 1..Len(MoveDirs) :
    AttackRay(g.board, g.turn, MoveDirs[k], ax, ay, 0)

(***************************************************************************)
(* check_for_pin, evaluated for selected_piece and king_coords[turn].      *)
(* None is <<>>, Some([m0, m1]) is <<m0, m1>>.  A Game value g is a record *)
(* of the struct's fields (see the definition Game below).                 *)
(***************************************************************************)
PinAxis(px, py, king_x, king_y) ==
  IF px = king_x THEN (IF py > king_y THEN <<"U", "D">> ELSE <<"D", "U">>)
  ELSE IF py = king_y THEN (IF px > king_x THEN <<"L", "R">> ELSE <<"R", "L">>)
  ELSE IF Abs(py - king_y) = Abs(px - king_x)
       THEN (IF py > king_y /\ px > king_x THEN <<"UL", "DR">>
             ELSE IF py > king_y /\ px < king_x THEN <<"UR", "DL">>
             ELSE IF py < king_y /\ px > king_x THEN <<"DL", "UR">>
             ELSE <<"DR", "UL">>)
  ELSE <<>>

RECURSIVE PinTowardKing(_, _, _, _, _)
PinTowardKing(b, t, change, tx, ty) ==
  LET nx == tx + change[1]
      ny == ty + change[2]
  IN IF ~OnBoard(nx, ny) THEN FALSE
     ELSE CASE b[ny][nx].piece = "King"  -> b[ny][nx].color = t
            [] b[ny][nx].piece = "Empty" -> PinTowardKing(b, t, change, nx, ny)
            [] OTHER -> FALSE

RECURSIVE PinAway(_, _, _, _, _, _)
PinAway(b, t, change, m0, tx, ty) ==
  LET nx == tx + change[1]
      ny == ty + change[2]
  IN IF ~OnBoard(nx, ny) THEN FALSE
     ELSE IF b[ny][nx].color = t THEN FALSE
     ELSE IF b[ny][nx].piece \in {"Queen", "Bishop", "Rook"}
          THEN Contains(b[ny][nx].moves, m0)
          ELSE PinAway(b, t, change, m0, nx, ny)

check_for_pin(g) ==
  LET sel  == g.selected_piece
      king == g.king_coords[g.turn]
      axis == PinAxis(sel[1], sel[2], king[1], king[2])
  IN IF axis = <<>> THEN <<>>
     ELSE IF ~PinTowardKing(g.board, g.turn, get_change_from_move(axis[1]),
                            sel[1], sel[2])
          THEN <<>>
     ELSE IF PinAway(g.board, g.turn, get_change_from_move(axis[2]), axis[1],
                     sel[1], sel[2])
          THEN axis
     ELSE <<>>

(***************************************************************************)
(* filter_legal_moves: the square at (x, y) is emptied, each candidate is  *)
(* simulated on the board (the king's coordinate first when the piece is   *)
(* the king), is_attacked is asked for the king, and the candidate's       *)
(* square and the king's coordinate are put back before the next one.      *)
(* After the loop the square at (x, y) is put back.  The king's coordinate *)
(* is written back as [x, y] once per candidate.                           *)
(***************************************************************************)
\* A slip of the simulation: the king's coordinate is not moved onto the
\* candidate, so the attack is asked for the square the king has left.
filter_legal_moves_stale_king(g) ==
  LET current_square == g.board[g.y][g.x]
      emptied == empty_square(g.board, g.x, g.y)
      Keep(coords) ==
        LET sim == [g EXCEPT !.board =
                      [emptied EXCEPT ![coords[2]][coords[1]] = current_square]]
        IN ~is_attacked(sim, g.king_coords[g.turn][1], g.king_coords[g.turn][2])
  IN [g EXCEPT !.moves = SelectSeq(g.moves, Keep)]

filter_legal_moves(g) ==
  LET current_square == g.board[g.y][g.x]
      emptied == empty_square(g.board, g.x, g.y)
      Keep(coords) ==
        LET kc  == IF current_square.piece = "King"
                   THEN [g.king_coords EXCEPT ![g.turn] = coords]
                   ELSE g.king_coords
            sim == [g EXCEPT !.board =
                      [emptied EXCEPT ![coords[2]][coords[1]] = current_square],
                    !.king_coords = kc]
        IN ~is_attacked(sim, kc[g.turn][1], kc[g.turn][2])
  IN [g EXCEPT
        !.moves = SelectSeq(g.moves, Keep),
        !.king_coords =
          IF current_square.piece = "King" /\ g.moves # <<>>
          THEN [g.king_coords EXCEPT ![g.turn] = <<g.x, g.y>>]
          ELSE g.king_coords]

(***************************************************************************)
(* find_moves, by piece kind.                                              *)
(***************************************************************************)
\* The directions left by the pin check: the pin axis intersected with the
\* piece's own directions, or all of the piece's directions.
\* A slip: the pin check is left out.
valid_moves_unpinned(g) == g.board[g.y][g.x].moves

valid_moves(g) ==
  LET pin == check_for_pin(g)
      InOwn(m) == Contains(g.board[g.y][g.x].moves, m)
  IN IF pin # <<>> THEN SelectSeq(pin, InOwn) ELSE g.board[g.y][g.x].moves

\* The closure of the pawn's flat_map for one direction m.
PawnDir(g, m) ==
  LET change == get_change_from_move(m)
      tx == g.x + change[1]
      ty == g.y + change[2]
  IN IF ~OnBoard(tx, ty) THEN <<>>
     ELSE IF g.board[ty][tx].color = g.turn THEN <<>>
     ELSE IF m \in {"U", "D"}
          THEN LET one == IF g.board[ty][tx].piece = "Empty"
                          THEN << <<tx, ty>> >> ELSE <<>>
                   ty2 == ty + change[2]
               IN IF (g.turn = 0 /\ g.y = 6) \/ (g.turn = 1 /\ g.y = 1)
                  THEN IF g.board[ty2][tx].piece = "Empty"
                       THEN one \o << <<tx, ty2>> >> ELSE one
                  ELSE one
     ELSE IF g.board[ty][tx].piece # "Empty" THEN << <<tx, ty>> >>
     ELSE IF g.en_passant # <<>> /\ g.en_passant[1][1] = tx
                /\ g.en_passant[1][2] = ty
          THEN << <<tx, ty>> >>
     ELSE <<>>

RECURSIVE PawnFlatMap(_, _, _)
PawnFlatMap(g, vm, k) ==
  IF k > Len(vm) THEN <<>> ELSE PawnDir(g, vm[k]) \o PawnFlatMap(g, vm, k + 1)

\* The closure of the king's and the knight's filter_map: one step.
RECURSIVE StepMoves(_, _, _)
StepMoves(g, ms, k) ==
  IF k > Len(ms) THEN <<>>
  ELSE LET change == get_change_from_move(ms[k])
           tx == g.x + change[1]
           ty == g.y + change[2]
       IN (IF ~OnBoard(tx, ty) THEN <<>>
           ELSE IF g.board[ty][tx].color = g.turn THEN <<>>
           ELSE << <<tx, ty>> >>) \o StepMoves(g, ms, k + 1)

\* The closure of the sliders' flat_map for one direction: the loop from
\* iteration i with the walk standing on (tx, ty).
RECURSIVE SlideRay(_, _, _, _, _)
SlideRay(g, change, tx, ty, i) ==
  IF i >= 7 THEN <<>>
  ELSE LET nx == tx + change[1]
           ny == ty + change[2]
       IN IF ~OnBoard(nx, ny) THEN <<>>
          ELSE IF g.board[ny][nx].color = g.turn THEN <<>>
          ELSE IF g.board[ny][nx].piece = "Empty"
               THEN << <<nx, ny>> >> \o SlideRay(g, change, nx, ny, i + 1)
               ELSE << <<nx, ny>> >>

RECURSIVE SlideFlatMap(_, _, _)
SlideFlatMap(g, vm, k) ==
  IF k > Len(vm) THEN <<>>
  ELSE SlideRay(g, get_change_from_move(vm[k]), g.x, g.y, 0)
         \o SlideFlatMap(g, vm, k + 1)

\* One castling scan of find_moves: n squares from the king in steps of
\* step files.  "panic" is the index out of bounds (or usize underflow) of
\* board[y][tmp_x] when the walk leaves the row.
RECURSIVE CastleScan(_, _, _, _)
CastleScan(g, step, n, k) ==
  IF k > n THEN "castle"
  ELSE LET tmp_x == g.x + step * k
       IN IF tmp_x < 0 \/ tmp_x > 7 THEN "panic"
          ELSE IF g.board[g.y][tmp_x].piece # "Empty" THEN "no"
          ELSE IF is_attacked(g, tmp_x, g.y) THEN "no"
          ELSE CastleScan(g, step, n, k + 1)

\* The tail of the pawn, knight and slider branches: the generated list is
\* filtered only when the side to move is in check.
filter_if_in_check(gen) ==
  IF gen.king_in_check THEN filter_legal_moves(gen) ELSE gen

find_moves_pawn(g) ==
  filter_if_in_check([g EXCEPT !.moves = PawnFlatMap(g, valid_moves(g), 1)])

\* One side of the castling block (side 0 king side, 1 queen side): the
\* scan runs only when the side to move still holds the right.
CastleSide(f, side, step, n) ==
  IF f.castling_rights[f.turn][side] THEN CastleScan(f, step, n, 1) ELSE "no"

\* The moves pushed by the castling block, given the outcome of each scan.
push_castling_moves(f, ks, qs) ==
  [f EXCEPT !.moves = f.moves
                      \o (IF ks = "castle" THEN << <<f.x + 2, f.y>> >> ELSE <<>>)
                      \o (IF qs = "castle" THEN << <<f.x - 2, f.y>> >> ELSE <<>>),
            !.panicked = (ks = "panic" \/ qs = "panic")]

\* The queen-side scan follows the king-side one unless that one panicked.
castling_after_kingside(f, ks) ==
  push_castling_moves(f, ks,
                      IF ks = "panic" THEN "no" ELSE CastleSide(f, 1, -1, 3))

\* A slip: the king-side scan stops after the square next to the king.
castling_block_one_square(f) ==
  castling_after_kingside(f, CastleSide(f, 0, 1, 1))

\* A slip of the other kind: no castling while the king is in check.
castling_block_not_in_check(f) ==
  IF f.king_in_check THEN f
  ELSE castling_after_kingside(f, CastleSide(f, 0, 1, 2))

castling_block(f) == castling_after_kingside(f, CastleSide(f, 0, 1, 2))

find_moves_king(g) ==
  castling_block(filter_legal_moves(
    [g EXCEPT !.moves = StepMoves(g, g.board[g.y][g.x].moves, 1)]))

find_moves_knight(g) ==
  IF check_for_pin(g) # <<>> THEN g
  ELSE filter_if_in_check(
         [g EXCEPT !.moves = StepMoves(g, g.board[g.y][g.x].moves, 1)])

find_moves_slider(g) ==
  filter_if_in_check([g EXCEPT !.moves = SlideFlatMap(g, valid_moves(g), 1)])

find_moves(g) ==
  LET c == [g EXCEPT !.moves = <<>>]
      p == c.board[c.y][c.x].piece
  IN CASE p = "Pawn"   -> find_moves_pawn(c)
       [] p = "King"   -> find_moves_king(c)
       [] p = "Knight" -> find_moves_knight(c)
       [] OTHER        -> find_moves_slider(c)

(***************************************************************************)
(* Move application helpers of handle_click_or_enter.  Each reads the      *)
(* piece on selected_piece (the origin) and the cursor (x, y) (the         *)
(* destination) before move_selected_piece changes the board.              *)
(***************************************************************************)
SelSquare(g) == g.board[g.selected_piece[2]][g.selected_piece[1]]

\* A slip: the capture test reads the origin square.
update_halfmove_clock_origin(g) ==
  IF SelSquare(g).piece = "Pawn" \/ SelSquare(g).piece # "Empty"
  THEN [g EXCEPT !.halfmove_clock = 0]
  ELSE [g EXCEPT !.halfmove_clock = g.halfmove_clock + 1]

update_halfmove_clock(g) ==
  IF SelSquare(g).piece = "Pawn" \/ g.board[g.y][g.x].piece # "Empty"
  THEN [g EXCEPT !.halfmove_clock = 0]
  ELSE [g EXCEPT !.halfmove_clock = g.halfmove_clock + 1]

update_en_passant_capture(g) ==
  IF g.en_passant = <<>> THEN g
  ELSE IF SelSquare(g).piece # "Pawn" THEN g
  ELSE IF g.x # g.en_passant[1][1] \/ g.y # g.en_passant[1][2] THEN g
  ELSE LET cy == IF g.turn = 0 THEN g.y + 1 ELSE g.y - 1
       IN IF cy < 0 \/ cy > 7 THEN [g EXCEPT !.panicked = TRUE]
          ELSE [g EXCEPT !.board = place_piece(g.board, "Empty", 2, g.x, cy)]

\* A slip: the target is cleared only by a pawn move.
update_en_passant_field_keep(g) ==
  IF SelSquare(g).piece # "Pawn" THEN g
  ELSE IF Abs(g.y - g.selected_piece[2]) = 2
       THEN IF g.turn = 0
            THEN [g EXCEPT !.en_passant = << <<g.x, g.y + 1>> >>]
            ELSE [g EXCEPT !.en_passant = << <<g.x, g.y - 1>> >>]
       ELSE [g EXCEPT !.en_passant = <<>>]

update_en_passant_field(g) ==
  IF SelSquare(g).piece # "Pawn" THEN [g EXCEPT !.en_passant = <<>>]
  ELSE IF Abs(g.y - g.selected_piece[2]) = 2
       THEN IF g.turn = 0
            THEN [g EXCEPT !.en_passant = << <<g.x, g.y + 1>> >>]
            ELSE [g EXCEPT !.en_passant = << <<g.x, g.y - 1>> >>]
       ELSE [g EXCEPT !.en_passant = <<>>]

\* A slip: the two rook files are swapped.
update_castling_rights_swapped(g) ==
  LET sel_x  == g.selected_piece[1]
      square == SelSquare(g)
  IN IF square.piece # "King" /\ square.piece # "Rook" THEN g
     ELSE IF square.piece = "King"
          THEN [g EXCEPT !.castling_rights[g.turn] = [i \in 0..1 |-> FALSE]]
     ELSE IF sel_x = 0 /\ g.castling_rights[g.turn][0]
          THEN [g EXCEPT !.castling_rights[g.turn][0] = FALSE]
     ELSE IF sel_x = 7 /\ g.castling_rights[g.turn][1]
          THEN [g EXCEPT !.castling_rights[g.turn][1] = FALSE]
     ELSE g

update_castling_rights(g) ==
  LET sel_x  == g.selected_piece[1]
      square == SelSquare(g)
  IN IF square.piece # "King" /\ square.piece # "Rook" THEN g
     ELSE IF square.piece = "King"
          THEN [g EXCEPT !.castling_rights[g.turn] = [i \in 0..1 |-> FALSE]]
     ELSE IF sel_x = 7 /\ g.castling_rights[g.turn][0]
          THEN [g EXCEPT !.castling_rights[g.turn][0] = FALSE]
     ELSE IF sel_x = 0 /\ g.castling_rights[g.turn][1]
          THEN [g EXCEPT !.castling_rights[g.turn][1] = FALSE]
     ELSE g

\* A slip: the test of the castling side is reversed, so each castling
\* relocates the rook of the other wing.
castle_king_reversed(g) ==
  LET sel_x == g.selected_piece[1]
  IN IF SelSquare(g).piece # "King" THEN g
     ELSE IF Abs(sel_x - g.x) # 2 THEN g
     ELSE IF g.x < sel_x
          THEN [g EXCEPT !.board =
                  place_piece(place_piece(g.board, "Rook", g.turn, g.x - 1, g.y),
                              "Empty", 2, 7, g.y)]
          ELSE [g EXCEPT !.board =
                  place_piece(place_piece(g.board, "Rook", g.turn, g.x + 1, g.y),
                              "Empty", 2, 0, g.y)]

castle_king(g) ==
  LET sel_x == g.selected_piece[1]
  IN IF SelSquare(g).piece # "King" THEN g
     ELSE IF Abs(sel_x - g.x) # 2 THEN g
     ELSE IF g.x > sel_x
          THEN [g EXCEPT !.board =
                  place_piece(place_piece(g.board, "Rook", g.turn, g.x - 1, g.y),
                              "Empty", 2, 7, g.y)]
          ELSE [g EXCEPT !.board =
                  place_piece(place_piece(g.board, "Rook", g.turn, g.x + 1, g.y),
                              "Empty", 2, 0, g.y)]

update_king_coords(g) ==
  IF SelSquare(g).piece # "King" THEN g
  ELSE [g EXCEPT !.king_coords[g.turn] = <<g.x, g.y>>]

move_selected_piece(g) ==
  LET to_move_x == g.selected_piece[1]
      to_move_y == g.selected_piece[2]
      moved == [g.board EXCEPT ![g.y][g.x] = g.board[to_move_y][to_move_x]]
  IN [g EXCEPT !.board = empty_square(moved, to_move_x, to_move_y)]

should_promote_pawn(g) ==
  IF g.board[g.y][g.x].piece # "Pawn" THEN FALSE
  ELSE IF g.turn = 0 THEN g.y = 0 ELSE g.y = 7

update_turn(g) ==
  IF g.turn = 0
  THEN [g EXCEPT !.turn = 1, !.fullmoves = g.fullmoves + 1]
  ELSE [g EXCEPT !.turn = 0]

\* self.king_in_check = self.is_attacked(king_coords[turn]); the statement
\* of handle_click_or_enter and of handle_gameplay_event's prologue.
recompute_check(g) ==
  [g EXCEPT !.king_in_check =
     is_attacked(g, g.king_coords[g.turn][1], g.king_coords[g.turn][2])]

(***************************************************************************)
(* Highlighting: the is_valid_move flags of the squares of self.moves.     *)
(***************************************************************************)
RECURSIVE SetFlags(_, _, _, _)
SetFlags(b, mv, k, flag) ==
  IF k > Len(mv) THEN b
  ELSE SetFlags([b EXCEPT ![mv[k][2]][mv[k][1]].is_valid_move = flag],
                mv, k + 1, flag)

highlight_moves(g) == [g EXCEPT !.board = SetFlags(g.board, g.moves, 1, TRUE)]

\* A slip: the list is cleared but the flags of its squares are left set.
unhighlight_moves_keep_flags(g) == [g EXCEPT !.moves = <<>>]

unhighlight_moves(g) ==
  [g EXCEPT !.board = SetFlags(g.board, g.moves, 1, FALSE), !.moves = <<>>]

select_piece(g) ==
  IF g.board[g.y][g.x].piece = "Empty" THEN g
  ELSE [g EXCEPT !.selected_piece = <<g.x, g.y>>]

(***************************************************************************)
(* check_for_mate: the row-major scan of the squares of the side to move.  *)
(* MateScan(g, i) is the scan from square number i (y = i \div 8,          *)
(* x = i % 8); found tells whether a piece with a non-empty move list      *)
(* ended it.  report is what the call wrote: "Checkmate", "Stalemate", or  *)
(* "None" when it returned without writing.                                *)
(***************************************************************************)
RECURSIVE MateScan(_, _)
RECURSIVE MateScanFound(_, _)
\* r is the game after find_moves on square number i.
MateScanFound(r, i) ==
  IF r.panicked \/ r.moves # <<>>
  THEN [game |-> r, found |-> TRUE]
  ELSE MateScan(r, i + 1)

MateScan(g, i) ==
  IF i > 63 THEN [game |-> g, found |-> FALSE]
  ELSE IF g.board[i \div 8][i % 8].color = g.turn
       THEN MateScanFound(find_moves([g EXCEPT !.x = i % 8, !.y = i \div 8]), i)
       ELSE MateScan(g, i + 1)

\* The end of check_for_mate: the cursor is put back on (cx, cy) and the
\* outcome of the scan is reported.  A find_moves that panicked unwinds out
\* of the scan: the cursor stays on the square being scanned.
mate_report(scan, cx, cy) ==
  LET back == [scan.game EXCEPT !.x = cx, !.y = cy]
  IN IF scan.game.panicked THEN [scan.game EXCEPT !.report = "None"]
     ELSE IF scan.found THEN [back EXCEPT !.report = "None"]
     ELSE IF back.king_in_check THEN [back EXCEPT !.report = "Checkmate"]
     ELSE [back EXCEPT !.report = "Stalemate"]

check_for_mate(g) == mate_report(MateScan(g, 0), g.x, g.y)

(***************************************************************************)
(* mouse_move_cursor (terminal column mx, row my) and                      *)
(* handle_click_or_enter.                                                  *)
(***************************************************************************)
mouse_move_cursor(g, mx, my) ==
  IF mx >= 2 /\ mx <= 9 /\ my >= 1 /\ my <= 8
  THEN [g EXCEPT !.x = mx - 2, !.y = my - 1]
  ELSE g

\* The arrow keys.
left(g)  == IF g.x > 0 THEN [g EXCEPT !.x = g.x - 1] ELSE g

right(g) == IF g.x < 7 THEN [g EXCEPT !.x = g.x + 1] ELSE g

down(g)  == IF g.y < 7 THEN [g EXCEPT !.y = g.y + 1] ELSE g

up(g)    == IF g.y > 0 THEN [g EXCEPT !.y = g.y - 1] ELSE g

\* The first branch: the cursor is on a square flagged as a valid move.
\* ... its end, once the piece has been moved: on a promotion the caller's
\* state becomes PromotePawn and the function returns before update_turn;
\* otherwise the turn passes and the position is examined.
promote_or_pass_turn(g) ==
  IF should_promote_pawn(g) THEN [g EXCEPT !.state = "PromotePawn"]
  ELSE check_for_mate(recompute_check(update_turn(g)))

\* ... the updates that follow update_en_passant_capture (which ends the
\* program if it panicked).
apply_move_after_capture(g) ==
  IF g.panicked THEN g
  ELSE promote_or_pass_turn(
         unhighlight_moves(move_selected_piece(update_king_coords(
           castle_king(update_castling_rights(update_en_passant_field(g)))))))

apply_move(g) ==
  apply_move_after_capture(update_en_passant_capture(update_halfmove_clock(g)))

\* The rest of the selection branch after find_moves (main.rs:1039): a
\* panic inside find_moves unwinds before highlight_moves (main.rs:1040)
\* runs, so no square is flagged.
highlight_found_moves(r) == IF r.panicked THEN r ELSE highlight_moves(r)

handle_click_or_enter(g) ==
  IF g.board[g.y][g.x].is_valid_move THEN apply_move(g)
  ELSE IF g.board[g.y][g.x].piece = "Empty" \/ g.board[g.y][g.x].color # g.turn
       THEN unhighlight_moves(g)
  ELSE highlight_found_moves(find_moves(unhighlight_moves(select_piece(g))))

(***************************************************************************)
(* handle_promote_pawn_event on a key q, r, n or b (any other event is     *)
(* ignored by its loop), followed by the prologue of handle_gameplay_event *)
(* that run_game enters next, before it reads another event.  run_game     *)
(* calls it when a handler returns with state PromotePawn, which           *)
(* handle_gameplay_event never does (see GameplayLoop): no action of the   *)
(* specifications below applies it.                                        *)
(***************************************************************************)
PromotionPieces == {"Queen", "Rook", "Knight", "Bishop"}

handle_promote_pawn_event(g, p) ==
  LET placed == [g EXCEPT !.board = place_piece(g.board, p, g.turn, g.x, g.y),
                          !.state = "Gameplay"]
  IN recompute_check(update_turn(placed))

(***************************************************************************)
(* FEN strings.  A string is a sequence of one-character strings.          *)
(* Digits, Lower and Upper give the characters their ASCII order: a digit  *)
(* d is Digits[d + 1] (code 48 + d), a letter is Lower[i] (code 96 + i) or *)
(* Upper[i] (code 64 + i).                                                 *)
(***************************************************************************)
Digits == <<"0", "1", "2", "3", "4", "5", "6", "7", "8", "9">>

Lower ==
  <<"a", "b", "c", "d", "e", "f", "g", "h", "i", "j", "k", "l", "m",
    "n", "o", "p", "q", "r", "s", "t", "u", "v", "w", "x", "y", "z">>

Upper ==
  <<"A", "B", "C", "D", "E", "F", "G", "H", "I", "J", "K", "L", "M",
    "N", "O", "P", "Q", "R", "S", "T", "U", "V", "W", "X", "Y", "Z">>

\* The position of character c in the sequence s, 0 when it is not there.
IndexIn(s, c) ==
  IF \E i \in 1..Len(s) : s[i] = c
  THEN CHOOSE i \in 1..Len(s) : s[i] = c
  ELSE 0

is_ascii_digit(c) == IndexIn(Digits, c) > 0

is_ascii_uppercase(c) == IndexIn(Upper, c) > 0

to_ascii_lowercase(c) ==
  IF is_ascii_uppercase(c) THEN Lower[IndexIn(Upper, c)] ELSE c

to_ascii_uppercase(c) ==
  IF IndexIn(Lower, c) > 0 THEN Upper[IndexIn(Lower, c)] ELSE c

\* The printable ASCII characters in the order of their codes, 32 to 126
\* (the grave accent, which a string of this notation cannot hold, is
\* written by its code).
Ascii ==
  <<" ", "!", "\"", "#", "$", "%", "&", "'", "(", ")", "*", "+", ",", "-",
    ".", "/">> \o Digits \o <<":", ";", "<", "=", ">", "?", "@">> \o Upper \o
  <<"[", "\\", "]", "^", "_", "U+96">> \o Lower \o <<"{", "|", "}", "~">>

\* char::from_u32(n): a printable ASCII character is itself; any other
\* character is written by its code, "U+" and the decimal number; "None"
\* when n is no Unicode scalar value (a surrogate, or above U+10FFFF).
from_u32(n) ==
  IF n < 0 \/ (n >= 55296 /\ n <= 57343) \/ n > 1114111 THEN "None"
  ELSE IF n >= 32 /\ n <= 126 THEN Ascii[n - 31]
  ELSE "U+" \o ToString(n)

\* char as u32 (as usize).
CharCode(c) ==
  IF IndexIn(Ascii, c) > 0 THEN 31 + IndexIn(Ascii, c)
  ELSE CHOOSE n \in 0..1114111 : from_u32(n) = c

\* char::from_u32(n as u32 + 97): the lower-case letter number n; past z
\* the characters that follow it.  A usize of 2^63 or more is written as
\* the negative number it wraps to (see fen_fill_en_passant); for those the
\* decoder can store, -65..-1, the sum wraps in u32 to n + 97.
LetterFrom97(n) == from_u32(n + 97)

\* usize::to_string.
RECURSIVE to_string(_)
to_string(n) ==
  IF n < 10 THEN <<Digits[n + 1]>>
  ELSE to_string(n \div 10) \o <<Digits[(n % 10) + 1]>>

(***************************************************************************)
(* create_fen_string.  FenSquares(b, i, empty_count) is the double loop    *)
(* from square number i (y = i \div 8, x = i % 8) with the run of empty    *)
(* squares counted so far.                                                 *)
(***************************************************************************)
\* A slip: the colour test is inverted, so White's letters stay lower case.
piece_char_inverted(sq) ==
  LET lower == CASE sq.piece = "King"   -> "k"
                 [] sq.piece = "Queen"  -> "q"
                 [] sq.piece = "Rook"   -> "r"
                 [] sq.piece = "Bishop" -> "b"
                 [] sq.piece = "Knight" -> "n"
                 [] sq.piece = "Pawn"   -> "p"
                 [] OTHER               -> " "
  IN IF sq.color = 1 THEN to_ascii_uppercase(lower) ELSE lower

piece_char(sq) ==
  LET lower == CASE sq.piece = "King"   -> "k"
                 [] sq.piece = "Queen"  -> "q"
                 [] sq.piece = "Rook"   -> "r"
                 [] sq.piece = "Bishop" -> "b"
                 [] sq.piece = "Knight" -> "n"
                 [] sq.piece = "Pawn"   -> "p"
                 [] OTHER               -> " "
  IN IF sq.color = 0 THEN to_ascii_uppercase(lower) ELSE lower

\* What the end of a row appends after its last square.
FenRowEnd(fy, empty_count) ==
  (IF empty_count > 0 THEN to_string(empty_count) ELSE <<>>)
  \o (IF fy < 7 THEN <<"/">> ELSE <<>>)

RECURSIVE FenSquares(_, _, _)
FenSquares(b, i, empty_count) ==
  IF i > 63 THEN <<>>
  ELSE IF b[i \div 8][i % 8].piece = "Empty"
       THEN IF i % 8 = 7
            THEN FenRowEnd(i \div 8, empty_count + 1) \o FenSquares(b, i + 1, 0)
            ELSE FenSquares(b, i + 1, empty_count + 1)
       ELSE (IF empty_count > 0 THEN to_string(empty_count) ELSE <<>>)
            \o <<piece_char(b[i \div 8][i % 8])>>
            \o (IF i % 8 = 7 THEN FenRowEnd(i \div 8, 0) ELSE <<>>)
            \o FenSquares(b, i + 1, 0)

FenTurn(g) == IF g.turn = 0 THEN <<" ", "w", " ">> ELSE <<" ", "b", " ">>

FenCastling(g) ==
  LET castle_string ==
        (IF g.castling_rights[0][0] THEN <<"K">> ELSE <<>>)
        \o (IF g.castling_rights[0][1] THEN <<"Q">> ELSE <<>>)
        \o (IF g.castling_rights[1][0] THEN <<"k">> ELSE <<>>)
        \o (IF g.castling_rights[1][1] THEN <<"q">> ELSE <<>>)
  IN IF castle_string = <<>> THEN <<"-">> ELSE castle_string

\* The unwrap of a None: the call panics instead of returning a string.
FenPanic == <<"None">>

FenEnPassant(g) ==
  IF g.en_passant = <<>> THEN <<" ", "-">>
  ELSE IF LetterFrom97(g.en_passant[1][1]) = "None" THEN FenPanic
  ELSE <<" ", LetterFrom97(g.en_passant[1][1])>>
       \o to_string(g.en_passant[1][2])

FenClocks(g) ==
  <<" ">> \o to_string(g.halfmove_clock) \o <<" ">> \o to_string(g.fullmoves)

create_fen_string(g) ==
  IF FenEnPassant(g) = FenPanic THEN FenPanic
  ELSE FenSquares(g.board, 0, 0) \o FenTurn(g) \o FenCastling(g)
       \o FenEnPassant(g) \o FenClocks(g)

(***************************************************************************)
(* fill_board_from_fen_string.  An index out of bounds and an unwrap of    *)
(* None or of Err are panics: they end the program where they happen, with *)
(* the fields written so far.  A usize subtraction below zero is a panic   *)
(* in a build with overflow checks (overflow_checks = TRUE, the debug      *)
(* profile) and wraps around 2^64 in a build without them (the release     *)
(* profile); a wrapped value 2^64 - k is written -k.                       *)
(***************************************************************************)
\* str::split on the characters of seps: empty pieces are kept.
RECURSIVE SplitFrom(_, _, _, _)
SplitFrom(s, seps, i, cur) ==
  IF i > Len(s) THEN <<cur>>
  ELSE IF s[i] \in seps THEN <<cur>> \o SplitFrom(s, seps, i + 1, <<>>)
  ELSE SplitFrom(s, seps, i + 1, Append(cur, s[i]))

split(s, sep) == SplitFrom(s, {sep}, 1, <<>>)

NonEmptyField(f) == f # <<>>

\* The characters with the Unicode property White_Space: U+0009 to U+000D,
\* the space, U+0085, U+00A0, U+1680, U+2000 to U+200A, U+2028, U+2029,
\* U+202F, U+205F and U+3000.
WhiteSpace ==
  {"U+9", "U+10", "U+11", "U+12", "U+13", " ", "U+133", "U+160", "U+5760",
   "U+8192", "U+8193", "U+8194", "U+8195", "U+8196", "U+8197", "U+8198",
   "U+8199", "U+8200", "U+8201", "U+8202", "U+8232", "U+8233", "U+8239",
   "U+8287", "U+12288"}

split_whitespace(s) ==
  SelectSeq(SplitFrom(s, WhiteSpace, 1, <<>>), NonEmptyField)

\* char::to_digit(10) of a digit character.
to_digit(c) == IndexIn(Digits, c) - 1

\* str::parse::<usize>: one "+" may come first, then digits, at least one,
\* whose value is at most usize::MAX.  ParseDigits(s) is the string after
\* the sign, ParseFrom(s, i, acc) the value of a digit string with the
\* first i - 1 digits read into acc, IsNumeric(s) tells whether the parse
\* is Ok, and parse_usize(s) is its value.
RECURSIVE ParseFrom(_, _, _)
ParseFrom(s, i, acc) ==
  IF i > Len(s) THEN acc
  ELSE ParseFrom(s, i + 1, acc * 10 + to_digit(s[i]))

ParseDigits(s) == IF s # <<>> /\ s[1] = "+" THEN Tail(s) ELSE s

\* The digit string s without its leading zeros.
RECURSIVE StripZeros(_)
StripZeros(s) ==
  IF s # <<>> /\ s[1] = "0" THEN StripZeros(Tail(s)) ELSE s

\* usize::MAX, 18446744073709551615.
UsizeMaxDigits ==
  <<"1", "8", "4", "4", "6", "7", "4", "4", "0", "7", "3", "7", "0", "9",
    "5", "5", "1", "6", "1", "5">>

\* The digit string s, of the length of t, stands for a larger number.
RECURSIVE DigitsAbove(_, _, _)
DigitsAbove(s, t, i) ==
  IF i > Len(s) THEN FALSE
  ELSE IF to_digit(s[i]) # to_digit(t[i]) THEN to_digit(s[i]) > to_digit(t[i])
  ELSE DigitsAbove(s, t, i + 1)

PosOverflow(s) ==
  \/ Len(StripZeros(s)) > Len(UsizeMaxDigits)
  \/ /\ Len(StripZeros(s)) = Len(UsizeMaxDigits)
     /\ DigitsAbove(StripZeros(s), UsizeMaxDigits, 1)

IsNumeric(s) ==
  /\ ParseDigits(s) # <<>>
  /\ \A i \in 1..Len(ParseDigits(s)) : is_ascii_digit(ParseDigits(s)[i])
  /\ ~PosOverflow(ParseDigits(s))

parse_usize(s) == ParseFrom(ParseDigits(s), 1, 0)

\* The piece a FEN character stands for.
FenPiece(c) ==
  IF is_ascii_digit(c) THEN "Empty"
  ELSE LET l == to_ascii_lowercase(c)
       IN CASE l = "k" -> "King"
            [] l = "q" -> "Queen"
            [] l = "r" -> "Rook"
            [] l = "b" -> "Bishop"
            [] l = "n" -> "Knight"
            [] l = "p" -> "Pawn"
            [] OTHER   -> "Empty"

\* for _ in 0..i { place_piece(Empty, 2, x, y); x += 1 }, the scan standing
\* on column fx of row fy; the result carries the column reached.
RECURSIVE FenPlaceEmpty(_, _, _, _)
FenPlaceEmpty(g, fx, fy, i) ==
  IF i = 0 THEN [game |-> g, fx |-> fx]
  ELSE IF ~OnBoard(fx, fy) THEN [game |-> [g EXCEPT !.panicked = TRUE], fx |-> fx]
  ELSE FenPlaceEmpty([g EXCEPT !.board = place_piece(g.board, "Empty", 2, fx, fy)],
                     fx + 1, fy, i - 1)

\* The else branch of the character loop: a piece letter c.
FenPlacePiece(g, c, fx, fy) ==
  LET color == IF is_ascii_uppercase(c) THEN 0 ELSE 1
      kc    == IF FenPiece(c) = "King"
               THEN [g.king_coords EXCEPT ![color] = <<fx, fy>>]
               ELSE g.king_coords
  IN IF ~OnBoard(fx, fy)
     THEN [g EXCEPT !.king_coords = kc, !.panicked = TRUE]
     ELSE [g EXCEPT !.king_coords = kc,
                    !.board = place_piece(g.board, FenPiece(c), color, fx, fy)]

\* One character c of a line, the scan standing on column fx of row fy.
FenChar(g, c, fx, fy) ==
  IF FenPiece(c) = "Empty"
  THEN IF is_ascii_digit(c) THEN FenPlaceEmpty(g, fx, fy, to_digit(c))
       ELSE [game |-> [g EXCEPT !.panicked = TRUE], fx |-> fx]
  ELSE [game |-> FenPlacePiece(g, c, fx, fy), fx |-> fx + 1]

\* The loops over the lines and their characters: li is the number of the
\* line (row li - 1), ci the number of the character in it, r the game and
\* the column reached.
RECURSIVE FenLines(_, _, _, _)
FenLines(r, lines, li, ci) ==
  IF r.game.panicked \/ li > Len(lines) THEN r.game
  ELSE IF ci > Len(lines[li])
       THEN FenLines([game |-> r.game, fx |-> 0], lines, li + 1, 1)
       ELSE FenLines(FenChar(r.game, lines[li][ci], r.fx, li - 1),
                     lines, li, ci + 1)

fen_fill_pieces(g, pieces) ==
  FenLines([game |-> g, fx |-> 0], split(pieces, "/"), 1, 1)

fen_fill_turn(g, color) ==
  IF g.panicked THEN g
  ELSE IF color[1] = "w" THEN [g EXCEPT !.turn = 0] ELSE [g EXCEPT !.turn = 1]

\* The loop over the castling field from character i, with rights cr.
RECURSIVE FenCastlingChars(_, _, _)
FenCastlingChars(cr, s, i) ==
  IF i > Len(s) THEN cr
  ELSE CASE s[i] = "K" -> FenCastlingChars([cr EXCEPT ![0][0] = TRUE], s, i + 1)
         [] s[i] = "Q" -> FenCastlingChars([cr EXCEPT ![0][1] = TRUE], s, i + 1)
         [] s[i] = "k" -> FenCastlingChars([cr EXCEPT ![1][0] = TRUE], s, i + 1)
         [] s[i] = "q" -> FenCastlingChars([cr EXCEPT ![1][1] = TRUE], s, i + 1)
         [] s[i] = "-" -> cr
         [] OTHER      -> FenCastlingChars(cr, s, i + 1)

fen_fill_castling(g, castling) ==
  IF g.panicked THEN g
  ELSE [g EXCEPT !.castling_rights =
          FenCastlingChars([c \in 0..1 |-> [i \in 0..1 |-> FALSE]], castling, 1)]

fen_fill_en_passant(g, en_p_chars, overflow_checks) ==
  IF g.panicked THEN g
  ELSE IF en_p_chars[1] = "-" THEN g
  ELSE IF CharCode(to_ascii_uppercase(en_p_chars[1])) < 65 /\ overflow_checks
       THEN [g EXCEPT !.panicked = TRUE]
  ELSE IF Len(en_p_chars) < 2 THEN [g EXCEPT !.panicked = TRUE]
  ELSE IF ~is_ascii_digit(en_p_chars[2]) THEN [g EXCEPT !.panicked = TRUE]
  ELSE [g EXCEPT !.en_passant =
          << <<CharCode(to_ascii_uppercase(en_p_chars[1])) - 65,
               to_digit(en_p_chars[2])>> >>]

fen_fill_halfmove_clock(g, s) ==
  IF g.panicked THEN g
  ELSE IF ~IsNumeric(s) THEN [g EXCEPT !.panicked = TRUE]
  ELSE [g EXCEPT !.halfmove_clock = parse_usize(s)]

fen_fill_fullmoves(g, s) ==
  IF g.panicked THEN g
  ELSE IF ~IsNumeric(s) THEN [g EXCEPT !.panicked = TRUE]
  ELSE [g EXCEPT !.fullmoves = parse_usize(s)]

\* The statements that follow the six contents[..] reads.
fen_fill_fields(g, contents, overflow_checks) ==
  fen_fill_fullmoves(
    fen_fill_halfmove_clock(
      fen_fill_en_passant(
        fen_fill_castling(
          fen_fill_turn(fen_fill_pieces(g, contents[1]), contents[2]),
          contents[3]),
        contents[4], overflow_checks),
      contents[5]),
    contents[6])

fen_fill_checked(g, contents, overflow_checks) ==
  IF Len(contents) < 6 THEN [g EXCEPT !.panicked = TRUE]
  ELSE fen_fill_fields(g, contents, overflow_checks)

fill_board_from_fen_string(g, fen, overflow_checks) ==
  fen_fill_checked(g, split_whitespace(fen), overflow_checks)

(***************************************************************************)
(* The program state: the fields of struct Game (rendering and I/O fields  *)
(* left out), the KeyCaptureState of run_game, what the last               *)
(* check_for_mate call wrote, and whether the process has panicked.        *)
(***************************************************************************)
VARIABLES board, x, y, turn, king_in_check, selected_piece, en_passant,
          castling_rights, king_coords, moves, halfmove_clock, fullmoves,
          state, report, panicked

(***************************************************************************)
(* The user: the events read from stdin.  The user plays one of the games  *)
(* of Scripts click by click, then up to MaxFree further moves of free     *)
(* play, clicking own pieces and highlighted squares.                      *)
(***************************************************************************)
VARIABLES script, step, free

gameVars == <<board, x, y, turn, king_in_check, selected_piece, en_passant,
              castling_rights, king_coords, moves, halfmove_clock, fullmoves,
              state, report, panicked>>

(***************************************************************************)
(* show_fen (a field of struct Game that only the key handlers read), the  *)
(* clipboard written by copy_fen_to_clipboard (<<>> while nothing has been *)
(* copied), and piece_to_place of run_game.  Two history variables:        *)
(* copied_from is the game the clipboard was encoded from, fen_in the last *)
(* string handed to fill_board_from_fen_string (<<>> while none has been). *)
(***************************************************************************)
VARIABLES show_fen, clipboard, piece_to_place, copied_from, fen_in

(***************************************************************************)
(* One call of is_attacked as rayon runs it: the sixteen closures of        *)
(* into_par_iter().filter_map(..) are tasks taken by the threads of        *)
(* RayThreads.  ray_target is the square of the call (<<>> outside a call),*)
(* ray_next..ray_last the directions of MoveDirs not yet taken, ray_at the *)
(* closure each thread is in (ray = 0 when it has none; i, tx, ty are the  *)
(* closure's loop variables), ray_hits the number of Some(true) collected, *)
(* ray_result the value returned ("none" until the call has returned).     *)
(***************************************************************************)
VARIABLES ray_target, ray_next, ray_last, ray_at, ray_hits, ray_result

rayVars == <<ray_target, ray_next, ray_last, ray_at, ray_hits, ray_result>>

sessionVars ==
  <<show_fen, clipboard, piece_to_place, copied_from, fen_in, rayVars>>

vars == <<gameVars, script, step, free, sessionVars>>

Game ==
  [board |-> board, x |-> x, y |-> y, turn |-> turn,
   king_in_check |-> king_in_check, selected_piece |-> selected_piece,
   en_passant |-> en_passant, castling_rights |-> castling_rights,
   king_coords |-> king_coords, moves |-> moves,
   halfmove_clock |-> halfmove_clock, fullmoves |-> fullmoves,
   state |-> state, report |-> report, panicked |-> panicked]

SetGame(r) ==
  /\ board' = r.board
  /\ x' = r.x
  /\ y' = r.y
  /\ turn' = r.turn
  /\ king_in_check' = r.king_in_check
  /\ selected_piece' = r.selected_piece
  /\ en_passant' = r.en_passant
  /\ castling_rights' = r.castling_rights
  /\ king_coords' = r.king_coords
  /\ moves' = r.moves
  /\ halfmove_clock' = r.halfmove_clock
  /\ fullmoves' = r.fullmoves
  /\ state' = r.state
  /\ report' = r.report
  /\ panicked' = r.panicked

\* init_game, init_board, and the prologue of the first
\* handle_gameplay_event.
init_game ==
  recompute_check(
    [board |-> init_board, x |-> 0, y |-> 0, turn |-> 0,
     king_in_check |-> FALSE, selected_piece |-> <<0, 0>>,
     en_passant |-> <<>>,
     castling_rights |-> [c \in 0..1 |-> [i \in 0..1 |-> TRUE]],
     king_coords |-> [c \in 0..1 |-> IF c = 0 THEN <<4, 7>> ELSE <<4, 0>>],
     moves |-> <<>>, halfmove_clock |-> 0, fullmoves |-> 1,
     state |-> "Gameplay", report |-> "None", panicked |-> FALSE])

(***************************************************************************)
(* The scripted games, as clicks on board squares.  Mv(f1, r1, f2, r2) is  *)
(* a click on the square of file f1, rank r1 and one on f2, r2.            *)
(***************************************************************************)
File == [a |-> 0, b |-> 1, c |-> 2, d |-> 3, e |-> 4, f |-> 5, g |-> 6, h |-> 7]

At(f, r) == <<f, 8 - r>>

Mv(f1, r1, f2, r2) == <<At(f1, r1), At(f2, r2)>>

\* 1.e3 d5 2.h3 d4 3.h4 Kd7 4.g3 Kd6 5.Rh2 Kc5 6.Rh1 Kb4 7.Qg4 h6 8.c4
\* dxc3 (en passant) 9.Qxb4
GameEnPassantRank ==
  Mv(File.e, 2, File.e, 3) \o Mv(File.d, 7, File.d, 5) \o
  Mv(File.h, 2, File.h, 3) \o Mv(File.d, 5, File.d, 4) \o
  Mv(File.h, 3, File.h, 4) \o Mv(File.e, 8, File.d, 7) \o
  Mv(File.g, 2, File.g, 3) \o Mv(File.d, 7, File.d, 6) \o
  Mv(File.h, 1, File.h, 2) \o Mv(File.d, 6, File.c, 5) \o
  Mv(File.h, 2, File.h, 1) \o Mv(File.c, 5, File.b, 4) \o
  Mv(File.d, 1, File.g, 4) \o Mv(File.h, 7, File.h, 6) \o
  Mv(File.c, 2, File.c, 4) \o Mv(File.d, 4, File.c, 3) \o
  Mv(File.g, 4, File.b, 4)

\* 1.e4 d5 2.exd5 e5 3.Nf3 Qe7 4.Nd4 exd4+ 5.Be2
GameDiscoveredCheck ==
  Mv(File.e, 2, File.e, 4) \o Mv(File.d, 7, File.d, 5) \o
  Mv(File.e, 4, File.d, 5) \o Mv(File.e, 7, File.e, 5) \o
  Mv(File.g, 1, File.f, 3) \o Mv(File.d, 8, File.e, 7) \o
  Mv(File.f, 3, File.d, 4) \o Mv(File.e, 5, File.d, 4) \o
  Mv(File.f, 1, File.e, 2)

\* 1.a4 b5 2.axb5 a6 3.bxa6 Bb7 4.axb7 h6 5.bxa8 (promotion)
GamePromotion ==
  Mv(File.a, 2, File.a, 4) \o Mv(File.b, 7, File.b, 5) \o
  Mv(File.a, 4, File.b, 5) \o Mv(File.a, 7, File.a, 6) \o
  Mv(File.b, 5, File.a, 6) \o Mv(File.c, 8, File.b, 7) \o
  Mv(File.a, 6, File.b, 7) \o Mv(File.h, 7, File.h, 6) \o
  Mv(File.b, 7, File.a, 8)

\* 1.d4 e5 2.e4 exd4 3.e5 Qe7 4.h3 d5, then the pinned pawn e5 is
\* selected and pushed.
GamePinnedPawn ==
  Mv(File.d, 2, File.d, 4) \o Mv(File.e, 7, File.e, 5) \o
  Mv(File.e, 2, File.e, 4) \o Mv(File.e, 5, File.d, 4) \o
  Mv(File.e, 4, File.e, 5) \o Mv(File.d, 8, File.e, 7) \o
  Mv(File.h, 2, File.h, 3) \o Mv(File.d, 7, File.d, 5) \o
  Mv(File.e, 5, File.e, 6)

\* 1.d4 e6 2.Nc3 Bb4, then the pinned knight c3 is selected, an empty
\* square is clicked, and 3.Bd2 is played.
GamePinnedKnight ==
  Mv(File.d, 2, File.d, 4) \o Mv(File.e, 7, File.e, 6) \o
  Mv(File.b, 1, File.c, 3) \o Mv(File.f, 8, File.b, 4) \o
  <<At(File.c, 3), At(File.e, 4)>> \o Mv(File.c, 1, File.d, 2)

\* 1.d4 e6 2.Bd2 Bb4, then the pinned bishop d2 captures along the pin.
GamePinnedBishop ==
  Mv(File.d, 2, File.d, 4) \o Mv(File.e, 7, File.e, 6) \o
  Mv(File.c, 1, File.d, 2) \o Mv(File.f, 8, File.b, 4) \o
  Mv(File.d, 2, File.b, 4)

\* 1.e4 a6 2.e5 d5 3.exd6 (en passant)
GameEnPassant ==
  Mv(File.e, 2, File.e, 4) \o Mv(File.a, 7, File.a, 6) \o
  Mv(File.e, 4, File.e, 5) \o Mv(File.d, 7, File.d, 5) \o
  Mv(File.e, 5, File.d, 6)

\* 1.e4 e5 2.Nf3 Nc6 3.Bc4 Bc5 4.O-O Nf6 5.d3 O-O
GameCastle ==
  Mv(File.e, 2, File.e, 4) \o Mv(File.e, 7, File.e, 5) \o
  Mv(File.g, 1, File.f, 3) \o Mv(File.b, 8, File.c, 6) \o
  Mv(File.f, 1, File.c, 4) \o Mv(File.f, 8, File.c, 5) \o
  Mv(File.e, 1, File.g, 1) \o Mv(File.g, 8, File.f, 6) \o
  Mv(File.d, 2, File.d, 3) \o Mv(File.e, 8, File.g, 8)

\* 1.f3 e5 2.g4 Qh4 mate
GameFoolsMate ==
  Mv(File.f, 2, File.f, 3) \o Mv(File.e, 7, File.e, 5) \o
  Mv(File.g, 2, File.g, 4) \o Mv(File.d, 8, File.h, 4)

\* 1.e4 e5 2.Nf3 Nc6 3.Bc4 Bc5 4.d3 d6 5.Be3 Be6 6.Nc3 Qd7 7.Qd2 Nf6: both
\* castlings are available to each side at move 8.
CastleOpening ==
  Mv(File.e, 2, File.e, 4) \o Mv(File.e, 7, File.e, 5) \o
  Mv(File.g, 1, File.f, 3) \o Mv(File.b, 8, File.c, 6) \o
  Mv(File.f, 1, File.c, 4) \o Mv(File.f, 8, File.c, 5) \o
  Mv(File.d, 2, File.d, 3) \o Mv(File.d, 7, File.d, 6) \o
  Mv(File.c, 1, File.e, 3) \o Mv(File.c, 8, File.e, 6) \o
  Mv(File.b, 1, File.c, 3) \o Mv(File.d, 8, File.d, 7) \o
  Mv(File.d, 1, File.d, 2) \o Mv(File.g, 8, File.f, 6)

\* ... 8.O-O-O O-O-O
GameCastleBothSides ==
  CastleOpening \o Mv(File.e, 1, File.c, 1) \o Mv(File.e, 8, File.c, 8)

\* ... 8.O-O O-O
GameCastleKingSide ==
  CastleOpening \o Mv(File.e, 1, File.g, 1) \o Mv(File.e, 8, File.g, 8)

\* ... 8.O-O O-O-O
GameCastleOppositeSides ==
  CastleOpening \o Mv(File.e, 1, File.g, 1) \o Mv(File.e, 8, File.c, 8)

\* 1.a4 h6 2.a5 Rh7 3.a6 Rh8 4.axb7 Rh7 5.e3 Rh8 6.Ke2 Rh7 7.Kf3 Rh8
\* 8.Kg4 d6+ (the bishop on c8 is uncovered) 9.bxc8, the pawn taking the
\* checking bishop on the last rank; White then clicks the king on g4.
GamePromotionOutOfCheck ==
  Mv(File.a, 2, File.a, 4) \o Mv(File.h, 7, File.h, 6) \o
  Mv(File.a, 4, File.a, 5) \o Mv(File.h, 8, File.h, 7) \o
  Mv(File.a, 5, File.a, 6) \o Mv(File.h, 7, File.h, 8) \o
  Mv(File.a, 6, File.b, 7) \o Mv(File.h, 8, File.h, 7) \o
  Mv(File.e, 2, File.e, 3) \o Mv(File.h, 7, File.h, 8) \o
  Mv(File.e, 1, File.e, 2) \o Mv(File.h, 8, File.h, 7) \o
  Mv(File.e, 2, File.f, 3) \o Mv(File.h, 7, File.h, 8) \o
  Mv(File.f, 3, File.g, 4) \o Mv(File.d, 7, File.d, 6) \o
  Mv(File.b, 7, File.c, 8) \o <<At(File.g, 4)>>

\* 1.e2-e4, then Black selects d7, clicks the white pawn on e4, selects d7
\* again, clicks the empty square h3, and plays d7-d5.
GameRejectedClicks ==
  Mv(File.e, 2, File.e, 4) \o
  <<At(File.d, 7), At(File.e, 4), At(File.d, 7), At(File.h, 3)>> \o
  Mv(File.d, 7, File.d, 5)

\* 1.e4 d5 2.exd5 e5 3.Be2 Qe7, then the bishop e2 is selected, with the
\* black pawn e5 standing between it and the queen e7, and 4.Nf3 is played.
GameScreenedQueen ==
  Mv(File.e, 2, File.e, 4) \o Mv(File.d, 7, File.d, 5) \o
  Mv(File.e, 4, File.d, 5) \o Mv(File.e, 7, File.e, 5) \o
  Mv(File.f, 1, File.e, 2) \o Mv(File.d, 8, File.e, 7) \o
  <<At(File.e, 2)>> \o Mv(File.g, 1, File.f, 3)

\* 1.e4 e5 2.Nf3 Nc6 3.Bc4 Bc5 4.d4 Bb4+ 5.O-O: the king e1 castles while
\* the bishop b4 attacks it.
GameCastleInCheck ==
  Mv(File.e, 2, File.e, 4) \o Mv(File.e, 7, File.e, 5) \o
  Mv(File.g, 1, File.f, 3) \o Mv(File.b, 8, File.c, 6) \o
  Mv(File.f, 1, File.c, 4) \o Mv(File.f, 8, File.c, 5) \o
  Mv(File.d, 2, File.d, 4) \o Mv(File.c, 5, File.b, 4) \o
  Mv(File.e, 1, File.g, 1)

\* 1.h3 Nc6 2.h4 Na5 3.h5 Nb3, then the pawn b2, with the knight b3 in
\* front of it, is selected and b4 is clicked.
GamePawnJump ==
  Mv(File.h, 2, File.h, 3) \o Mv(File.b, 8, File.c, 6) \o
  Mv(File.h, 3, File.h, 4) \o Mv(File.c, 6, File.a, 5) \o
  Mv(File.h, 4, File.h, 5) \o Mv(File.a, 5, File.b, 3) \o
  Mv(File.b, 2, File.b, 4)

\* 1.b3 g6 2.Bb2 Nh6 3.Bxh8 Bg7 4.Bxg7 a6 5.Bb2, then the king e8 is
\* selected and g8 is clicked: the rook h8 has been captured.
GameCastleWithoutRook ==
  Mv(File.b, 2, File.b, 3) \o Mv(File.g, 7, File.g, 6) \o
  Mv(File.c, 1, File.b, 2) \o Mv(File.g, 8, File.h, 6) \o
  Mv(File.b, 2, File.h, 8) \o Mv(File.f, 8, File.g, 7) \o
  Mv(File.h, 8, File.g, 7) \o Mv(File.a, 7, File.a, 6) \o
  Mv(File.g, 7, File.b, 2) \o Mv(File.e, 8, File.g, 8)

\* 1.e4 a6 2.e5 a5 3.Ke2 a4 4.Ke3 h6 5.Ke4 d5+, then the pawn e5 is
\* selected and 6.Ke3 is played.
GameEnPassantOutOfCheck ==
  Mv(File.e, 2, File.e, 4) \o Mv(File.a, 7, File.a, 6) \o
  Mv(File.e, 4, File.e, 5) \o Mv(File.a, 6, File.a, 5) \o
  Mv(File.e, 1, File.e, 2) \o Mv(File.a, 5, File.a, 4) \o
  Mv(File.e, 2, File.e, 3) \o Mv(File.h, 7, File.h, 6) \o
  Mv(File.e, 3, File.e, 4) \o Mv(File.d, 7, File.d, 5) \o
  <<At(File.e, 5)>> \o Mv(File.e, 4, File.e, 3)

\* The threads of the pool that run the closures of one is_attacked call.
RayThreads == {1, 2}

NoRay == [ray |-> 0, i |-> 0, tx |-> 0, ty |-> 0]

Scripts ==
  <<GameEnPassantRank, GameDiscoveredCheck, GamePromotion, GamePinnedPawn,
    GamePinnedKnight, GamePinnedBishop, GameEnPassant, GameCastle,
    GameFoolsMate, GameCastleBothSides, GameRejectedClicks, GameScreenedQueen,
    GameCastleInCheck, GamePawnJump, GameCastleWithoutRook,
    GameEnPassantOutOfCheck, GamePromotionOutOfCheck, GameCastleKingSide,
    GameCastleOppositeSides>>

MaxFree == 1

InScript == step <= Len(Scripts[script])

Allowed(cx, cy) ==
  IF InScript THEN <<cx, cy>> = Scripts[script][step]
  ELSE /\ free < MaxFree
       /\ board[cy][cx].is_valid_move \/ board[cy][cx].color = turn

\* The event loop of handle_gameplay_event is reading the events: the
\* handler returns on the keys e and q only, so after a promoting move, when
\* handle_click_or_enter has set state to PromotePawn, the loop goes on.
GameplayLoop == state \in {"Gameplay", "PromotePawn"}

\* The scripted games the user plays on the keyboard as well as with the
\* mouse.
KeyboardGames == {i \in 1..Len(Scripts) : Scripts[i] = GameFoolsMate}

\* The arrow keys the user presses: while following such a script, the ones
\* that bring the cursor to the square of the next scripted event, first
\* along the row, then along the column.
ArrowKeys ==
  IF ~InScript \/ script \notin KeyboardGames THEN {}
  ELSE IF x > Scripts[script][step][1] THEN {"Left"}
  ELSE IF x < Scripts[script][step][1] THEN {"Right"}
  ELSE IF y > Scripts[script][step][2] THEN {"Up"}
  ELSE IF y < Scripts[script][step][2] THEN {"Down"}
  ELSE {}

Init ==
  /\ board = init_game.board
  /\ x = init_game.x
  /\ y = init_game.y
  /\ turn = init_game.turn
  /\ king_in_check = init_game.king_in_check
  /\ selected_piece = init_game.selected_piece
  /\ en_passant = init_game.en_passant
  /\ castling_rights = init_game.castling_rights
  /\ king_coords = init_game.king_coords
  /\ moves = init_game.moves
  /\ halfmove_clock = init_game.halfmove_clock
  /\ fullmoves = init_game.fullmoves
  /\ state = init_game.state
  /\ report = init_game.report
  /\ panicked = init_game.panicked
  /\ script \in 1..Len(Scripts)
  /\ step = 1
  /\ free = 0
  /\ show_fen = FALSE
  /\ clipboard = <<>>
  /\ piece_to_place = "Empty"
  /\ copied_from = <<>>
  /\ fen_in = <<>>
  /\ ray_target = <<>>
  /\ ray_next = 1
  /\ ray_last = 0
  /\ ray_at = [w \in RayThreads |-> NoRay]
  /\ ray_hits = 0
  /\ ray_result = "none"

(***************************************************************************)
(* Event::Mouse(MouseEvent::Release) on the board square (cx, cy), that    *)
(* is terminal column cx + 2 and row cy + 1, in handle_gameplay_event.     *)
(***************************************************************************)
MouseRelease(cx, cy) ==
  /\ GameplayLoop
  /\ ~panicked
  /\ Allowed(cx, cy)
  /\ \E r \in {handle_click_or_enter(mouse_move_cursor(Game, cx + 2, cy + 1))} :
       SetGame(r)
  /\ script' = script
  /\ step' = IF InScript THEN step + 1 ELSE step
  /\ free' = IF ~InScript /\ board[cy][cx].is_valid_move
             THEN free + 1 ELSE free
  /\ UNCHANGED sessionVars

(***************************************************************************)
(* Event::Key(Key::Left), Right, Up and Down in handle_gameplay_event.     *)
(***************************************************************************)
KeyArrow(k) ==
  /\ GameplayLoop
  /\ ~panicked
  /\ k \in ArrowKeys
  /\ \E r \in {CASE k = "Left"  -> left(Game)
                  [] k = "Right" -> right(Game)
                  [] k = "Up"    -> up(Game)
                  [] k = "Down"  -> down(Game)} : SetGame(r)
  /\ UNCHANGED <<script, step, free, sessionVars>>

(***************************************************************************)
(* Event::Key(Key::Char('\n')) in handle_gameplay_event: the square under  *)
(* the cursor is the one the user would have clicked.                      *)
(***************************************************************************)
KeyEnter ==
  /\ GameplayLoop
  /\ ~panicked
  /\ Allowed(x, y)
  /\ \E r \in {handle_click_or_enter(Game)} : SetGame(r)
  /\ script' = script
  /\ step' = IF InScript THEN step + 1 ELSE step
  /\ free' = IF ~InScript /\ board[y][x].is_valid_move
             THEN free + 1 ELSE free
  /\ UNCHANGED sessionVars

(***************************************************************************)
(* Event::Key(Key::Char('q')) in handle_gameplay_event: run_game returns.  *)
(* The user quits once the script is played, while the session goes on    *)
(* and no piece is selected.                                               *)
(***************************************************************************)
KeyQuit ==
  /\ GameplayLoop
  /\ ~panicked
  /\ ~InScript
  /\ free < MaxFree
  /\ moves = <<>>
  /\ \E r \in {[Game EXCEPT !.state = "ExitGame"]} : SetGame(r)
  /\ UNCHANGED <<script, step, free, sessionVars>>

Next ==
  \/ \E cx \in Coords, cy \in Coords : MouseRelease(cx, cy)
  \/ \E k \in {"Left", "Right", "Up", "Down"} : KeyArrow(k)
  \/ KeyEnter
  \/ KeyQuit

Spec == Init /\ [][Next]_vars

(***************************************************************************)
(* The FEN keys of handle_gameplay_event and the decoder.  A session that  *)
(* copies or decodes a FEN follows its scripted game only: CopyFen gives   *)
(* up the free play, and DecodeFen, which replaces the position the script *)
(* was written for, is the last event the session is followed to.          *)
(***************************************************************************)
\* "4k3/8/8/8/8/8/8/4K3 w Kq - 0 1"
FenKingsOnly ==
  <<"4", "k", "3", "/", "8", "/", "8", "/", "8", "/", "8", "/", "8", "/",
    "8", "/", "4", "K", "3", " ", "w", " ", "K", "q", " ", "-", " ", "0",
    " ", "1">>

\* "rnbqkbnr/pppppppp/8/8/4P3/8/PPPP1PPP/RNBQKBNR b KQkq e3 0 1"
FenAfterE4 ==
  <<"r", "n", "b", "q", "k", "b", "n", "r", "/", "p", "p", "p", "p", "p",
    "p", "p", "p", "/", "8", "/", "8", "/", "4", "P", "3", "/", "8", "/",
    "P", "P", "P", "P", "1", "P", "P", "P", "/", "R", "N", "B", "Q", "K",
    "B", "N", "R", " ", "b", " ", "K", "Q", "k", "q", " ", "e", "3", " ",
    "0", " ", "1">>

\* "8/8/8/8/8/8/8/8 w - -": four fields
FenFourFields ==
  <<"8", "/", "8", "/", "8", "/", "8", "/", "8", "/", "8", "/", "8", "/",
    "8", " ", "w", " ", "-", " ", "-">>

\* "4k3/8/8/8/8/8/8/4K2 w - - 0 1": the last rank has seven files
FenShortRank ==
  <<"4", "k", "3", "/", "8", "/", "8", "/", "8", "/", "8", "/", "8", "/",
    "8", "/", "4", "K", "2", " ", "w", " ", "-", " ", "-", " ", "0", " ",
    "1">>

\* "4k3/9/8/8/8/8/8/4K3 w - - 0 1": the second rank has nine files
FenLongRank ==
  <<"4", "k", "3", "/", "9", "/", "8", "/", "8", "/", "8", "/", "8", "/",
    "8", "/", "4", "K", "3", " ", "w", " ", "-", " ", "-", " ", "0", " ",
    "1">>

\* "4k3/8/8/8/8/8/8/4K3 w - - x 1": the halfmove clock is not a number
FenBadClock ==
  <<"4", "k", "3", "/", "8", "/", "8", "/", "8", "/", "8", "/", "8", "/",
    "8", "/", "4", "K", "3", " ", "w", " ", "-", " ", "-", " ", "x", " ",
    "1">>

\* "4k3/8/8/8/8/8/8/6K1 w K - 0 1"
FenKingOnG1 ==
  <<"4", "k", "3", "/", "8", "/", "8", "/", "8", "/", "8", "/", "8", "/",
    "8", "/", "6", "K", "1", " ", "w", " ", "K", " ", "-", " ", "0", " ",
    "1">>

\* "4k3/8/8/8/8/8/8/4K3<TAB>w<TAB>-<TAB>-<TAB>+5<TAB>1<LF>": tabs between
\* the fields, a signed clock and a line feed at the end
FenTabs ==
  <<"4", "k", "3", "/", "8", "/", "8", "/", "8", "/", "8", "/", "8", "/",
    "8", "/", "4", "K", "3", "U+9", "w", "U+9", "-", "U+9", "-", "U+9",
    "+", "5", "U+9", "1", "U+10">>

\* "4k3/8/8/8/8/8/8/4K3 w - 33 0 1": the en-passant field starts with a
\* character that comes before "A"
FenDigitEnPassant ==
  <<"4", "k", "3", "/", "8", "/", "8", "/", "8", "/", "8", "/", "8", "/",
    "8", "/", "4", "K", "3", " ", "w", " ", "-", " ", "3", "3", " ", "0",
    " ", "1">>

FenInputs ==
  {FenKingsOnly, FenAfterE4, FenFourFields, FenShortRank, FenLongRank,
   FenBadClock, FenKingOnG1, FenTabs, FenDigitEnPassant}

\* Event::Key(Key::Char('f')).
ToggleFen ==
  /\ GameplayLoop
  /\ ~panicked
  /\ fen_in = <<>>
  /\ show_fen' = ~show_fen
  /\ UNCHANGED <<gameVars, script, step, free>>
  /\ UNCHANGED <<clipboard, piece_to_place, copied_from, fen_in, rayVars>>

\* Event::Key(Key::Char('c')) with show_fen set: copy_fen_to_clipboard.
CopyFen ==
  /\ GameplayLoop
  /\ ~panicked
  /\ show_fen
  /\ clipboard = <<>>
  /\ free = 0
  /\ fen_in = <<>>
  /\ clipboard' = create_fen_string(Game)
  /\ copied_from' = Game
  /\ free' = MaxFree
  /\ UNCHANGED <<gameVars, script, step>>
  /\ UNCHANGED <<show_fen, piece_to_place, fen_in, rayVars>>

\* fill_board_from_fen_string(fen) on the current game: fen is the
\* clipboard, or one of FenInputs when nothing has been copied.
DecodeFen(fen) ==
  /\ GameplayLoop
  /\ ~panicked
  /\ fen_in = <<>>
  /\ fen # <<>>
  /\ IF clipboard = <<>> THEN free = 0 /\ fen \in FenInputs
     ELSE fen = clipboard
  /\ \E overflow_checks \in BOOLEAN :
       \E r \in {fill_board_from_fen_string(Game, fen, overflow_checks)} :
         SetGame(r)
  /\ fen_in' = fen
  /\ step' = Len(Scripts[script]) + 1
  /\ free' = MaxFree
  /\ UNCHANGED <<script, show_fen, clipboard, piece_to_place, copied_from>>
  /\ UNCHANGED rayVars

NextFen ==
  \/ Next
  \/ ToggleFen
  \/ CopyFen
  \/ \E fen \in FenInputs \cup {clipboard} : DecodeFen(fen)

SpecFen == Init /\ [][NextFen]_vars

(***************************************************************************)
(* The board editor: handle_edit_board_event and                           *)
(* handle_colour_chooser_event.  The user opens the editor at the start of *)
(* the scripted game or right after its last click, which ends the script, *)
(* since the position it was written for is replaced; the editing          *)
(* operations count as the session's free moves, and the cursor is put on  *)
(* one of EditSquares.                                                     *)
(***************************************************************************)
EditSquares == {At(File.e, 1), At(File.e, 8), At(File.d, 4)}

EditPieces == {"King", "Queen", "Rook", "Bishop", "Knight", "Pawn"}

\* empty_board: empty_square on each of the 64 squares.
empty_board(g) ==
  [g EXCEPT !.board =
     [sy \in Coords |->
        [sx \in Coords |-> empty_square(g.board, sx, sy)[sy][sx]]]]

\* The 'w' (color 0) and 'b' (color 1) branches of
\* handle_colour_chooser_event, for piece_to_place p.
colour_chooser_place(g, p, color) ==
  LET placed == [g EXCEPT !.board = place_piece(g.board, p, color, g.x, g.y),
                          !.state = "EditBoard"]
  IN IF p = "King"
     THEN [placed EXCEPT !.king_coords[color] = <<g.x, g.y>>,
                         !.castling_rights[color] = [i \in 0..1 |-> FALSE]]
     ELSE placed

\* Event::Key(Key::Char('e')) in handle_gameplay_event, and the prologue of
\* handle_edit_board_event that run_game enters next.
EnterEdit ==
  /\ GameplayLoop
  /\ ~panicked
  /\ fen_in = <<>> /\ clipboard = <<>>
  /\ \/ step = 1
     \/ ~InScript /\ moves = <<>>
                  /\ <<x, y>> = Scripts[script][Len(Scripts[script])]
  /\ free = 0
  /\ \E r \in {unhighlight_moves([Game EXCEPT !.state = "EditBoard"])} :
       SetGame(r)
  /\ step' = Len(Scripts[script]) + 1
  /\ UNCHANGED <<script, free, sessionVars>>

\* Event::Mouse(MouseEvent::Release) in handle_edit_board_event.
EditMouse(cx, cy) ==
  /\ state = "EditBoard"
  /\ <<cx, cy>> \in EditSquares
  /\ \E r \in {mouse_move_cursor(Game, cx + 2, cy + 1)} : SetGame(r)
  /\ UNCHANGED <<script, step, free, sessionVars>>

\* Event::Key(Key::Char('c')) in handle_edit_board_event.
EditClear ==
  /\ state = "EditBoard"
  /\ free < MaxFree
  /\ \E r \in {empty_board(Game)} : SetGame(r)
  /\ free' = free + 1
  /\ UNCHANGED <<script, step, sessionVars>>

\* Event::Key(Key::Char('d')) in handle_edit_board_event.
EditDelete ==
  /\ state = "EditBoard"
  /\ free < MaxFree
  /\ \E r \in {[Game EXCEPT !.board = empty_square(board, x, y)]} : SetGame(r)
  /\ free' = free + 1
  /\ UNCHANGED <<script, step, sessionVars>>

\* A piece key k, q, r, n, b or p in handle_edit_board_event.
EditPieceKey(p) ==
  /\ state = "EditBoard"
  /\ free < MaxFree
  /\ piece_to_place' = p
  /\ \E r \in {[Game EXCEPT !.state = "ChooseColour"]} : SetGame(r)
  /\ UNCHANGED <<script, step, free>>
  /\ UNCHANGED <<show_fen, clipboard, copied_from, fen_in, rayVars>>

\* A key w or b in handle_colour_chooser_event, and the prologue of
\* handle_edit_board_event that run_game enters next.
ChooseColourKey(color) ==
  /\ state = "ChooseColour"
  /\ \E r \in {unhighlight_moves(
                  colour_chooser_place(Game, piece_to_place, color))} :
       SetGame(r)
  /\ free' = free + 1
  /\ UNCHANGED <<script, step, sessionVars>>

\* Event::Key(Key::Esc) in handle_edit_board_event, and the prologue of
\* handle_gameplay_event that run_game enters next.
EditEsc ==
  /\ state = "EditBoard"
  /\ \E r \in {recompute_check([Game EXCEPT !.state = "Gameplay"])} : SetGame(r)
  /\ UNCHANGED <<script, step, free, sessionVars>>

NextEdit ==
  \/ Next
  \/ EnterEdit
  \/ \E cx \in Coords, cy \in Coords : EditMouse(cx, cy)
  \/ EditClear
  \/ EditDelete
  \/ \E p \in EditPieces : EditPieceKey(p)
  \/ \E color \in 0..1 : ChooseColourKey(color)
  \/ EditEsc

SpecEdit == Init /\ [][NextEdit]_vars

(***************************************************************************)
(* is_attacked in parallel.  RayIter is one iteration of the closure's     *)
(* for loop (i, tmp_x, tmp_y before the iteration): "none" is return None, *)
(* "hit" is return Some(true), "go" is the fall through to the next        *)
(* iteration.  The call is made right after the last click of a scripted   *)
(* game, on the position it ends in,                                       *)
(* for a square of the row of the king of the side to move (the king's     *)
(* square and the squares of the castling scans), and ends the session.    *)
(***************************************************************************)
RayIter(b, t, dir, tx, ty, i) ==
  LET change == get_change_from_move(dir)
      nx == tx + change[1]
      ny == ty + change[2]
      none == [out |-> "none", tx |-> nx, ty |-> ny]
      hit  == [out |-> "hit", tx |-> nx, ty |-> ny]
  IN IF ~OnBoard(nx, ny) THEN none
     ELSE IF b[ny][nx].color = t THEN none
     ELSE CASE b[ny][nx].piece = "Empty" -> [out |-> "go", tx |-> nx, ty |-> ny]
            [] b[ny][nx].piece \in {"King", "Knight"} ->
                 IF i > 0 THEN none
                 ELSE IF Contains(b[ny][nx].moves, dir) THEN hit ELSE none
            [] b[ny][nx].piece = "Pawn" ->
                 IF i > 0 THEN none
                 ELSE IF t = 0
                      THEN (IF dir = "UL" \/ dir = "UR" THEN hit ELSE none)
                      ELSE (IF dir = "DL" \/ dir = "DR" THEN hit ELSE none)
            [] OTHER -> IF Contains(b[ny][nx].moves, dir) THEN hit ELSE none

\* is_attacked(ax, ay) is entered: dirs is collected and handed to the pool.
CallIsAttacked(ax, ay) ==
  /\ GameplayLoop
  /\ ~panicked
  /\ ~InScript /\ free = 0 /\ moves = <<>>
  /\ <<x, y>> = Scripts[script][Len(Scripts[script])]
  /\ ray_target = <<>> /\ ray_result = "none"
  /\ ay = king_coords[turn][2]
  /\ ray_target' = <<ax, ay>>
  /\ ray_next' = 1
  /\ ray_last' = Len(MoveDirs)
  /\ ray_hits' = 0
  /\ free' = MaxFree
  /\ UNCHANGED <<gameVars, script, step, ray_at, ray_result>>
  /\ UNCHANGED <<show_fen, clipboard, piece_to_place, copied_from, fen_in>>

\* Thread w takes a direction not yet taken and enters its closure: thread
\* 1 works through the vector from its front, the other thread takes from
\* its back (the halves into_par_iter() splits off for it).
RayTake(w, front) ==
  /\ ray_target # <<>>
  /\ front = (w = 1)
  /\ ray_at[w].ray = 0
  /\ ray_next <= ray_last
  /\ ray_at' = [ray_at EXCEPT ![w] =
                  [ray |-> IF front THEN ray_next ELSE ray_last, i |-> 0,
                   tx |-> ray_target[1], ty |-> ray_target[2]]]
  /\ ray_next' = IF front THEN ray_next + 1 ELSE ray_next
  /\ ray_last' = IF front THEN ray_last ELSE ray_last - 1
  /\ UNCHANGED <<gameVars, script, step, free, ray_target, ray_hits, ray_result>>
  /\ UNCHANGED <<show_fen, clipboard, piece_to_place, copied_from, fen_in>>

\* Thread w runs one iteration of its closure; the closure returns None
\* when the loop has run its seven iterations.
RayStep(w) ==
  /\ ray_at[w].ray # 0
  /\ \E r \in {RayIter(board, turn, MoveDirs[ray_at[w].ray],
                        ray_at[w].tx, ray_at[w].ty, ray_at[w].i)} :
       /\ ray_at' = [ray_at EXCEPT ![w] =
                       IF r.out = "go" /\ ray_at[w].i + 1 < 7
                       THEN [ray |-> ray_at[w].ray, i |-> ray_at[w].i + 1,
                             tx |-> r.tx, ty |-> r.ty]
                       ELSE NoRay]
       /\ ray_hits' = IF r.out = "hit" THEN ray_hits + 1 ELSE ray_hits
  /\ UNCHANGED <<gameVars, script, step, free>>
  /\ UNCHANGED <<ray_target, ray_next, ray_last, ray_result>>
  /\ UNCHANGED <<show_fen, clipboard, piece_to_place, copied_from, fen_in>>

\* A slip: the call returns while closures are still running.
RayCollect_early ==
  /\ ray_target # <<>>
  /\ ray_result = "none"
  /\ ray_next > ray_last
  /\ ray_result' = IF ray_hits > 0 THEN "true" ELSE "false"
  /\ UNCHANGED <<gameVars, script, step, free>>
  /\ UNCHANGED <<ray_target, ray_next, ray_last, ray_at, ray_hits>>
  /\ UNCHANGED <<show_fen, clipboard, piece_to_place, copied_from, fen_in>>

\* collect() has every closure's result: is_attacked returns
\* !attacked.is_empty().
RayCollect ==
  /\ ray_target # <<>>
  /\ ray_result = "none"
  /\ ray_next > ray_last
  /\ \A w \in RayThreads : ray_at[w].ray = 0
  /\ ray_result' = IF ray_hits > 0 THEN "true" ELSE "false"
  /\ UNCHANGED <<gameVars, script, step, free>>
  /\ UNCHANGED <<ray_target, ray_next, ray_last, ray_at, ray_hits>>
  /\ UNCHANGED <<show_fen, clipboard, piece_to_place, copied_from, fen_in>>

NextRays ==
  \/ Next
  \/ \E ax \in Coords, ay \in Coords : CallIsAttacked(ax, ay)
  \/ \E w \in RayThreads, front \in BOOLEAN : RayTake(w, front)
  \/ \E w \in RayThreads : RayStep(w)
  \/ RayCollect

SpecRays == Init /\ [][NextRays]_vars

(***************************************************************************)
(* The rules of chess, stated on a board value independently of the        *)
(* program's ray walks: which squares a piece attacks, and the position    *)
(* after a move with its en-passant removal and its castling rook.         *)
(***************************************************************************)
Sign(n) == IF n > 0 THEN 1 ELSE IF n < 0 THEN -1 ELSE 0

MaxOf(m, n) == IF m > n THEN m ELSE n

RuleAttacks(b, px, py, tx, ty) ==
  LET p  == b[py][px]
      dx == tx - px
      dy == ty - py
      far == MaxOf(Abs(dx), Abs(dy))
      Clear == \A k \in 1..(far - 1) :
                 b[py + k * Sign(dy)][px + k * Sign(dx)].piece = "Empty"
      straight == (dx = 0) # (dy = 0)
      diagonal == Abs(dx) = Abs(dy) /\ dx # 0
  IN CASE p.piece = "King"   -> far = 1
       [] p.piece = "Knight" -> {Abs(dx), Abs(dy)} = {1, 2}
       [] p.piece = "Pawn"   ->
            Abs(dx) = 1 /\ dy = (IF p.color = 0 THEN -1 ELSE 1)
       [] p.piece = "Rook"   -> straight /\ Clear
       [] p.piece = "Bishop" -> diagonal /\ Clear
       [] p.piece = "Queen"  -> (straight \/ diagonal) /\ Clear
       [] OTHER -> FALSE

RuleAttacked(b, tx, ty, by) ==
  \E px \in Coords, py \in Coords :
    b[py][px].color = by /\ RuleAttacks(b, px, py, tx, ty)

Content(sq) == <<sq.piece, sq.color>>

RuleAfterMove(b, from, to) ==
  LET p  == b[from[2]][from[1]]
      b1 == [b EXCEPT ![to[2]][to[1]] = p, ![from[2]][from[1]] = EmptySquare]
  IN IF p.piece = "Pawn" /\ to[1] # from[1] /\ b[to[2]][to[1]].piece = "Empty"
     THEN [b1 EXCEPT ![from[2]][to[1]] = EmptySquare]
     ELSE IF p.piece = "King" /\ to[1] - from[1] = 2
     THEN [b1 EXCEPT ![from[2]][to[1] - 1] = b[from[2]][7],
                     ![from[2]][7] = EmptySquare]
     ELSE IF p.piece = "King" /\ from[1] - to[1] = 2
     THEN [b1 EXCEPT ![from[2]][to[1] + 1] = b[from[2]][0],
                     ![from[2]][0] = EmptySquare]
     ELSE b1

KingSquares(b, c) ==
  {k \in Coords \X Coords :
     b[k[2]][k[1]].piece = "King" /\ b[k[2]][k[1]].color = c}

(***************************************************************************)
(* Observations shared by the properties.                                  *)
(***************************************************************************)
\* A piece of the side to move is selected: the last event was a click on
\* it, and moves is the list find_moves generated for it.
Selecting ==
  /\ GameplayLoop
  /\ ~panicked
  /\ selected_piece = <<x, y>>
  /\ board[y][x].color = turn

\* The step is an applied move: a click or Enter, in the gameplay loop, on
\* a square flagged as a valid destination (an event of the script or a
\* free move, not an arrow key crossing the square nor a key that leaves
\* the loop or the game).  The origin is selected_piece, the destination is
\* the new cursor (x', y').
Applied ==
  /\ GameplayLoop
  /\ ~panicked
  /\ board[y'][x'].is_valid_move
  /\ step' # step \/ free' # free
  /\ state' \in {"Gameplay", "PromotePawn"}
  /\ sessionVars' = sessionVars

Origin == board[selected_piece[2]][selected_piece[1]]

FinalRank(c) == IF c = 0 THEN 0 ELSE 7

(***************************************************************************)
(* C1.  Whenever a piece of the side to move is selected, every            *)
(* destination of the generated move list leads, once the move is made     *)
(* with its en-passant removal, to a position in which the mover's own     *)
(* king is not attacked.                                                   *)
(***************************************************************************)
LeavesKingSafe(b, from, to, c) ==
  LET after == RuleAfterMove(b, from, to)
  IN \A k \in KingSquares(after, c) : ~RuleAttacked(after, k[1], k[2], 1 - c)

C1_MovesKeepOwnKingSafe ==
  Selecting =>
    \A i \in 1..Len(moves) : LeavesKingSafe(board, <<x, y>>, moves[i], turn)

(***************************************************************************)
(* C2.  Once a pawn move onto the mover's final rank is accepted, the game *)
(* waits in PromotePawn with the turn unchanged; the only step from there  *)
(* replaces that pawn by a queen, rook, knight or bishop of the mover's    *)
(* colour and toggles the turn once; and no pawn stands on its final rank  *)
(* when a move is applied.                                                 *)
(***************************************************************************)
PawnOnFinalRank(b) ==
  \E c \in 0..1, px \in Coords :
    b[FinalRank(c)][px].piece = "Pawn" /\ b[FinalRank(c)][px].color = c

C2_Step ==
  /\ (Applied /\ Origin.piece = "Pawn" /\ y' = FinalRank(turn))
       => /\ state' = "PromotePawn"
          /\ turn' = turn
          /\ fullmoves' = fullmoves
          /\ board'[y'][x'].piece = "Pawn"
  /\ Applied => ~PawnOnFinalRank(board)
  /\ state = "PromotePawn"
       => /\ board[y][x].piece = "Pawn"
          /\ board[y][x].color = turn
          /\ y = FinalRank(turn)
          /\ \E p \in PromotionPieces :
               board' = [board EXCEPT ![y][x] = Square(p, turn)]
          /\ turn' = 1 - turn
          /\ state' = "Gameplay"
          /\ <<x', y', selected_piece'>> = <<x, y, selected_piece>>

C2_PromotionSuspendsTurn == [][C2_Step]_vars

(***************************************************************************)
(* C3.  After every applied move the terminal-state detector reports       *)
(* Checkmate exactly when the side to move has its king attacked and none  *)
(* of its pieces has a move, Stalemate exactly when its king is not        *)
(* attacked and none has a move, and nothing when some piece has a move.   *)
(* The moves of a piece are those the move generator lists when that piece *)
(* is selected.                                                            *)
(***************************************************************************)
SelectedMoves(sx, sy) ==
  find_moves([Game EXCEPT !.x = sx, !.y = sy,
                          !.selected_piece = <<sx, sy>>]).moves

TerminalStatus ==
  LET some == \E sx \in Coords, sy \in Coords :
                board[sy][sx].color = turn /\ SelectedMoves(sx, sy) # <<>>
      attacked == \E k \in KingSquares(board, turn) :
                    RuleAttacked(board, k[1], k[2], 1 - turn)
  IN IF some THEN "None" ELSE IF attacked THEN "Checkmate" ELSE "Stalemate"

C3_TerminalReport ==
  (state = "Gameplay" /\ ~panicked) => report = TerminalStatus

(***************************************************************************)
(* C4.  The fullmove number is unchanged by a White move and grows by      *)
(* exactly 1 on each Black move.                                           *)
(***************************************************************************)
C4_Step ==
  /\ (turn = 0 /\ turn' = 1) => fullmoves' = fullmoves
  /\ (turn = 1 /\ turn' = 0) => fullmoves' = fullmoves + 1

C4_FullmoveAfterBlack == [][C4_Step]_vars

(***************************************************************************)
(* C5.  For each side, the square at king_coords[side] holds a King of     *)
(* that side.                                                              *)
(***************************************************************************)
C5_KingCoordsHoldKing ==
  \A c \in 0..1 :
    Content(board[king_coords[c][2]][king_coords[c][1]]) = <<"King", c>>

(***************************************************************************)
(* C6.  For a selected King of the side to move, no destination of the     *)
(* generated move list (adjacent step or two-file castling destination) is *)
(* attacked by the other side in the position after the move.              *)
(***************************************************************************)
C6_KingNeverStepsIntoAttack ==
  (Selecting /\ board[y][x].piece = "King") =>
    \A i \in 1..Len(moves) :
      LET after == RuleAfterMove(board, <<x, y>>, moves[i])
      IN ~RuleAttacked(after, moves[i][1], moves[i][2], 1 - turn)

\* A king is selected and its list holds an adjacent step and a two-file
\* castling destination.
C6_Witness ==
  /\ Selecting
  /\ board[y][x].piece = "King"
  /\ \E i \in 1..Len(moves) : Abs(moves[i][1] - x) = 2
  /\ \E i \in 1..Len(moves) : Abs(moves[i][1] - x) < 2

(***************************************************************************)
(* C7.  Whenever check_for_pin reports a pin axis for the selected piece,  *)
(* every destination of its move list lies on the line through the piece   *)
(* along that axis, and a knight has an empty move list.                   *)
(***************************************************************************)
OnAxis(from, to, axis) ==
  \E k \in 1..7, j \in 1..2 :
    LET change == get_change_from_move(axis[j])
    IN to = <<from[1] + k * change[1], from[2] + k * change[2]>>

C7_PinnedMovesOnAxis ==
  (Selecting /\ check_for_pin(Game) # <<>>) =>
    /\ \A i \in 1..Len(moves) : OnAxis(<<x, y>>, moves[i], check_for_pin(Game))
    /\ board[y][x].piece = "Knight" => moves = <<>>

\* A pinned piece with a non-empty move list is selected.
C7_Witness ==
  /\ Selecting
  /\ check_for_pin(Game) # <<>>
  /\ moves # <<>>

(***************************************************************************)
(* C8.  On every applied move the halfmove clock becomes 0 if the moving   *)
(* piece is a pawn or the destination square is occupied before the move,  *)
(* and otherwise its previous value plus 1.                                *)
(***************************************************************************)
C8_Step ==
  Applied =>
    halfmove_clock' =
      IF Origin.piece = "Pawn" \/ board[y'][x'].piece # "Empty"
      THEN 0 ELSE halfmove_clock + 1

C8_HalfmoveClock == [][C8_Step]_vars

\* White has just castled kingside and the clock counts the five quiet
\* piece moves since the last pawn move.
C8_Witness ==
  /\ halfmove_clock = 5
  /\ Content(board[7][6]) = <<"King", 0>>
  /\ Content(board[7][5]) = <<"Rook", 0>>
  /\ turn = 1

(***************************************************************************)
(* C9.  After every applied move the en-passant target is empty unless the *)
(* move was a pawn advancing two ranks, and then it holds exactly the      *)
(* square the pawn passed over; whatever target stood before is gone.      *)
(***************************************************************************)
C9_Step ==
  Applied =>
    en_passant' =
      IF Origin.piece = "Pawn" /\ Abs(y' - selected_piece[2]) = 2
      THEN << <<selected_piece[1], (y' + selected_piece[2]) \div 2>> >>
      ELSE <<>>

C9_EnPassantTarget == [][C9_Step]_vars

\* Black has just played d7-d5 and the target is d6.
C9_Witness ==
  /\ en_passant = << <<3, 2>> >>
  /\ Content(board[3][3]) = <<"Pawn", 1>>
  /\ board[1][3].piece = "Empty"
  /\ turn = 0

(***************************************************************************)
(* C10.  When a pawn adjacent to an enemy pawn that has just advanced two  *)
(* ranks is selected, the en-passant target is in its move list; when a    *)
(* pawn moves onto the en-passant target, the enemy pawn on the            *)
(* destination's file and the mover's origin rank is removed, and no       *)
(* square other than it, the origin and the destination changes.           *)
(***************************************************************************)
\* The selected pawn stands beside the enemy pawn that has just advanced
\* two ranks.
BesideDoublePushedPawn ==
  /\ Selecting
  /\ board[y][x].piece = "Pawn"
  /\ en_passant # <<>>
  /\ Abs(en_passant[1][1] - x) = 1
  /\ en_passant[1][2] = (IF turn = 0 THEN y - 1 ELSE y + 1)
  /\ Content(board[y][en_passant[1][1]]) = <<"Pawn", 1 - turn>>

\* The direction from the selected pawn to the en-passant target.
CaptureDir ==
  IF turn = 0 THEN (IF en_passant[1][1] < x THEN "UL" ELSE "UR")
  ELSE (IF en_passant[1][1] < x THEN "DL" ELSE "DR")

EnPassantCaptureStep ==
  (Applied /\ Origin.piece = "Pawn" /\ en_passant = << <<x', y'>> >>) =>
    /\ Content(board[selected_piece[2]][x']) = <<"Pawn", 1 - turn>>
    /\ \A px \in Coords, py \in Coords :
         Content(board'[py][px]) =
           IF <<px, py>> = <<x', y'>> THEN Content(Origin)
           ELSE IF <<px, py>> = selected_piece THEN Content(EmptySquare)
           ELSE IF <<px, py>> = <<x', selected_piece[2]>>
                THEN Content(EmptySquare)
           ELSE Content(board[py][px])

\* The capture onto the en-passant target is one the rules allow: with the
\* capturing pawn on the target and the captured pawn taken off the board,
\* no king of the mover is attacked.
EnPassantAllowed ==
  \A k \in KingSquares(board, turn) :
    ~RuleAttacked(RuleAfterMove(board, <<x, y>>, en_passant[1]),
                  k[1], k[2], 1 - turn)

\* The claim, read for the captures the rules allow (the spec's "may
\* capture"): the target is listed whenever such a pawn is selected, and the
\* capture removes the enemy pawn and changes no other square.
C10_Step ==
  /\ (BesideDoublePushedPawn /\ EnPassantAllowed)
       => Contains(moves, en_passant[1])
  /\ EnPassantCaptureStep

C10_EnPassant == [][C10_Step]_vars

(***************************************************************************)
(* C11.  With the king of the side to move on its e-file home square, own  *)
(* rooks on both corners of the home rank, both castling rights set and    *)
(* the squares between king and rooks empty and unattacked, selecting the  *)
(* king lists both two-file destinations; applying the king-side one puts  *)
(* the king on the g-file, the h-file rook on the f-file and empties the   *)
(* h corner, applying the queen-side one puts the king on the c-file, the  *)
(* a-file rook on the d-file and empties the a corner; either clears both  *)
(* rights of the mover and leaves the opponent's rights unchanged.         *)
(***************************************************************************)
HomeRank(c) == IF c = 0 THEN 7 ELSE 0

CastleReady(c) ==
  LET r == HomeRank(c)
  IN /\ Content(board[r][4]) = <<"King", c>>
     /\ Content(board[r][0]) = <<"Rook", c>>
     /\ Content(board[r][7]) = <<"Rook", c>>
     /\ castling_rights[c][0] /\ castling_rights[c][1]
     /\ \A f \in {1, 2, 3, 5, 6} :
          /\ board[r][f].piece = "Empty"
          /\ ~RuleAttacked(board, f, r, 1 - c)

C11_Listed ==
  (Selecting /\ CastleReady(turn) /\ <<x, y>> = <<4, HomeRank(turn)>>)
    => /\ Contains(moves, <<6, y>>)
       /\ Contains(moves, <<2, y>>)

C11_Step ==
  (/\ Applied
   /\ CastleReady(turn)
   /\ selected_piece = <<4, HomeRank(turn)>>
   /\ y' = HomeRank(turn)
   /\ x' \in {2, 6})
    => LET r == HomeRank(turn)
       IN /\ Content(board'[r][x']) = <<"King", turn>>
          /\ Content(board'[r][4]) = <<"Empty", 2>>
          /\ x' = 6 => /\ Content(board'[r][5]) = <<"Rook", turn>>
                       /\ Content(board'[r][7]) = <<"Empty", 2>>
                       /\ Content(board'[r][0]) = <<"Rook", turn>>
          /\ x' = 2 => /\ Content(board'[r][3]) = <<"Rook", turn>>
                       /\ Content(board'[r][0]) = <<"Empty", 2>>
                       /\ Content(board'[r][7]) = <<"Rook", turn>>
          /\ ~castling_rights'[turn][0] /\ ~castling_rights'[turn][1]
          /\ castling_rights'[1 - turn] = castling_rights[1 - turn]

C11_Castling == [](C11_Listed) /\ [][C11_Step]_vars

\* From positions in which both castlings were listed, White has castled
\* king side (king g1, rook f1, h1 empty, the a1 rook in place) and Black
\* queen side (king c8, rook d8, a8 empty, the h8 rook in place).
C11_Witness ==
  /\ Scripts[script] = GameCastleOppositeSides
  /\ step = Len(Scripts[script]) + 1
  /\ free = 0
  /\ Content(board[7][6]) = <<"King", 0>> /\ Content(board[7][5]) = <<"Rook", 0>>
  /\ Content(board[7][7]) = <<"Empty", 2>> /\ Content(board[7][0]) = <<"Rook", 0>>
  /\ Content(board[7][4]) = <<"Empty", 2>>
  /\ Content(board[0][2]) = <<"King", 1>> /\ Content(board[0][3]) = <<"Rook", 1>>
  /\ Content(board[0][0]) = <<"Empty", 2>> /\ Content(board[0][7]) = <<"Rook", 1>>
  /\ Content(board[0][4]) = <<"Empty", 2>>
  /\ ~castling_rights[0][0] /\ ~castling_rights[0][1]
  /\ ~castling_rights[1][0] /\ ~castling_rights[1][1]

(***************************************************************************)
(* Observations of the FEN codec.  DecodeStep is a step that hands a       *)
(* string to fill_board_from_fen_string: fen_in' is that string, the       *)
(* unprimed variables the game before it and the primed ones the game      *)
(* after it.  Placement is the pieces and colours of the 64 squares.       *)
(***************************************************************************)
DecodeStep == fen_in = <<>> /\ fen_in' # <<>>

Placement(b) == [sy \in Coords |-> [sx \in Coords |-> Content(b[sy][sx])]]

\* The FEN fields of a game, as the spec lists them.
FenFields(g) ==
  [placement |-> Placement(g.board), turn |-> g.turn,
   castling_rights |-> g.castling_rights, en_passant |-> g.en_passant,
   halfmove_clock |-> g.halfmove_clock, fullmoves |-> g.fullmoves,
   king_coords |-> g.king_coords]

(***************************************************************************)
(* C12.  The FEN string encoded from the initial state (init_game with     *)
(* init_board) is exactly                                                  *)
(* "rnbqkbnr/pppppppp/8/8/8/8/PPPPPPPP/RNBQKBNR w KQkq - 0 1".             *)
(***************************************************************************)
\* "rnbqkbnr/pppppppp/8/8/8/8/PPPPPPPP/RNBQKBNR w KQkq - 0 1"
StartFen ==
  <<"r", "n", "b", "q", "k", "b", "n", "r", "/", "p", "p", "p", "p", "p",
    "p", "p", "p", "/", "8", "/", "8", "/", "8", "/", "8", "/", "P", "P",
    "P", "P", "P", "P", "P", "P", "/", "R", "N", "B", "Q", "K", "B", "N",
    "R", " ", "w", " ", "K", "Q", "k", "q", " ", "-", " ", "0", " ", "1">>

C12_StartPositionFen ==
  (clipboard # <<>> /\ copied_from = init_game) => clipboard = StartFen

\* The FEN has been copied in the initial state.
C12_Witness == clipboard # <<>> /\ copied_from = init_game

(***************************************************************************)
(* C13.  Decoding the FEN string that was encoded from a game S reached by *)
(* gameplay, into whatever game is current at the decode, does not abort   *)
(* and yields a game equal to S in piece placement, turn, castling rights, *)
(* en-passant target, halfmove clock, fullmove number and king             *)
(* coordinates.                                                            *)
(***************************************************************************)
C13_Step ==
  (DecodeStep /\ clipboard # <<>> /\ fen_in' = clipboard)
    => /\ ~panicked'
       /\ FenFields(Game') = FenFields(copied_from)

C13_RoundTrip == [][C13_Step]_vars

(***************************************************************************)
(* C14.  The en-passant field of an encoded FEN (its fourth field) is "-"  *)
(* when the game has no en-passant target, and otherwise the file letter   *)
(* of the target followed by its chess rank, 8 minus its board row: "e3"   *)
(* after e2-e4 from the starting position, "d6" after d7-d5.               *)
(***************************************************************************)
RuleEnPassantField(ep) ==
  IF ep = <<>> THEN <<"-">>
  ELSE <<Lower[ep[1][1] + 1]>> \o to_string(8 - ep[1][2])

C14_EnPassantField ==
  clipboard # <<>> =>
    split_whitespace(clipboard)[4] = RuleEnPassantField(copied_from.en_passant)

(***************************************************************************)
(* C15.  A decode that runs to its end on a FEN whose en-passant field is  *)
(* "-" leaves the game without an en-passant target, whatever target it    *)
(* held before; and each of the rights K, Q, k, q whose letter is not in   *)
(* the castling field is cleared.                                          *)
(***************************************************************************)
CastlingLetters == <<<<"K", 0, 0>>, <<"Q", 0, 1>>, <<"k", 1, 0>>, <<"q", 1, 1>>>>

C15_Step ==
  (DecodeStep /\ Len(split_whitespace(fen_in')) >= 6 /\ ~panicked')
    => LET fields == split_whitespace(fen_in')
       IN /\ fields[4] = <<"-">> => en_passant' = <<>>
          /\ \A i \in 1..Len(CastlingLetters) :
               ~Contains(fields[3], CastlingLetters[i][1])
                 => ~castling_rights'[CastlingLetters[i][2]][CastlingLetters[i][3]]

C15_DecodeClears == [][C15_Step]_vars

(***************************************************************************)
(* C16.  Decoding a malformed FEN (fewer than six whitespace-separated     *)
(* fields, a rank that does not sum to eight files, or a halfmove or       *)
(* fullmove field that is not a number) is a recoverable error: the        *)
(* program is not aborted, and board, turn, castling rights, en-passant    *)
(* target, clocks and king coordinates are what they were before.          *)
(***************************************************************************)
\* The files a rank of the placement field stands for.
RECURSIVE RankFiles(_, _)
RankFiles(line, i) ==
  IF i > Len(line) THEN 0
  ELSE (IF is_ascii_digit(line[i]) THEN to_digit(line[i]) ELSE 1)
       + RankFiles(line, i + 1)

MalformedFen(fen) ==
  LET fields == split_whitespace(fen)
  IN \/ Len(fields) < 6
     \/ /\ Len(fields) >= 6
        /\ \/ \E i \in 1..Len(split(fields[1], "/")) :
                RankFiles(split(fields[1], "/")[i], 1) # 8
           \/ ~IsNumeric(fields[5])
           \/ ~IsNumeric(fields[6])

C16_Step ==
  (DecodeStep /\ MalformedFen(fen_in'))
    => /\ ~panicked'
       /\ FenFields(Game') = FenFields(Game)

C16_MalformedFenRejected == [][C16_Step]_vars

(***************************************************************************)
(* C17.  In Gameplay a click on a square that is not flagged as a valid    *)
(* destination and is empty or holds a piece of the side not to move       *)
(* changes none of piece placement, turn, castling rights, en-passant      *)
(* target, clocks and king coordinates; and every square flagged as a      *)
(* valid destination is in the move list, which is the list the move       *)
(* generator gives for the selected piece, so that a move is applied only  *)
(* to a destination of the last generated set.                             *)
(***************************************************************************)
Flagged == {sq \in Coords \X Coords : board[sq[2]][sq[1]].is_valid_move}

C17_Flags ==
  Flagged # {} =>
    /\ \A sq \in Flagged : Contains(moves, sq)
    /\ moves = SelectedMoves(selected_piece[1], selected_piece[2])

\* The step is a click, in Gameplay, on the square (x', y') that is not
\* flagged and is empty or holds a piece of the side not to move.
RejectedClick ==
  /\ GameplayLoop
  /\ ~panicked
  /\ state' = state
  /\ ~board[y'][x'].is_valid_move
  /\ board[y'][x'].piece = "Empty" \/ board[y'][x'].color # turn

C17_Step ==
  RejectedClick => FenFields(Game') = FenFields(Game)

C17_RejectedClicks == [](C17_Flags) /\ [][C17_Step]_vars

\* Black has selected d7 (d6 and d5 flagged) and then clicked the white
\* pawn on e4: the click is rejected and nothing is flagged any more.
C17_Witness ==
  /\ script = 11
  /\ step = 5
  /\ <<x, y>> = At(File.e, 4)
  /\ selected_piece = At(File.d, 7)
  /\ turn = 1
  /\ Flagged = {}

(***************************************************************************)
(* C18.  Every board-edit operation (placing a piece of either colour on   *)
(* the cursor square, deleting the cursor square, clearing the board)      *)
(* keeps the king coordinates and castling rights consistent: if before it *)
(* each side's king_coords names a square holding that side's King, or the *)
(* side has no King on the board and both its castling rights cleared,     *)
(* then the same is true after it; and placing a King sets king_coords of  *)
(* its side to its square and clears that side's castling rights.          *)
(***************************************************************************)
KingConsistent(b, kc, cr) ==
  \A c \in 0..1 :
    \/ Content(b[kc[c][2]][kc[c][1]]) = <<"King", c>>
    \/ KingSquares(b, c) = {} /\ ~cr[c][0] /\ ~cr[c][1]

EditStep == state \in {"EditBoard", "ChooseColour"} /\ ~panicked

KingPlaced ==
  state = "ChooseColour" /\ piece_to_place = "King" /\ state' = "EditBoard"

C18_Step ==
  /\ (EditStep /\ KingConsistent(board, king_coords, castling_rights))
       => KingConsistent(board', king_coords', castling_rights')
  /\ KingPlaced =>
       \E c \in 0..1 :
         /\ Content(board'[y][x]) = <<"King", c>>
         /\ king_coords'[c] = <<x, y>>
         /\ ~castling_rights'[c][0] /\ ~castling_rights'[c][1]

C18_EditsKeepKingsConsistent == [][C18_Step]_vars

(***************************************************************************)
(* C19.  Whenever a piece of the side to move is selected and              *)
(* check_for_pin returns a pin axis for it, the first non-empty square met *)
(* walking from the piece away from its king holds an enemy Queen or Rook  *)
(* when the axis is orthogonal, an enemy Queen or Bishop when it is        *)
(* diagonal.                                                               *)
(***************************************************************************)
RECURSIVE FirstAway(_, _, _, _)
FirstAway(b, change, tx, ty) ==
  LET nx == tx + change[1]
      ny == ty + change[2]
  IN IF ~OnBoard(nx, ny) THEN EmptySquare
     ELSE IF b[ny][nx].piece # "Empty" THEN b[ny][nx]
     ELSE FirstAway(b, change, nx, ny)

PinnerOf(axis) ==
  FirstAway(board, get_change_from_move(axis[2]),
            selected_piece[1], selected_piece[2])

PinnersOn(axis) ==
  IF axis[1] \in {"U", "D", "L", "R"} THEN {"Queen", "Rook"}
  ELSE {"Queen", "Bishop"}

ProperPin(axis) ==
  /\ PinnerOf(axis).color = 1 - turn
  /\ PinnerOf(axis).piece \in PinnersOn(axis)

C19_PinOnlyBehindSlider ==
  (Selecting /\ check_for_pin(Game) # <<>>) => ProperPin(check_for_pin(Game))

(***************************************************************************)
(* C20.  When a move has been applied and check_for_mate has scanned the   *)
(* squares of the side to move, the move list find_moves computed for each *)
(* scanned square equals the move list that a click selecting that square  *)
(* in the same position produces.  The scan visits the squares of the side *)
(* to move in row-major order up to the first with a non-empty list, and   *)
(* runs in the position the step ends in (it writes only moves, the cursor *)
(* it puts back, and the report).                                          *)
(***************************************************************************)
ScanMoves(g, i) == find_moves([g EXCEPT !.x = i % 8, !.y = i \div 8]).moves

SelectionMoves(g, i) ==
  handle_click_or_enter([g EXCEPT !.x = i % 8, !.y = i \div 8]).moves

Scanned(g, i) ==
  /\ g.board[i \div 8][i % 8].color = g.turn
  /\ \A j \in 0..(i - 1) :
       g.board[j \div 8][j % 8].color = g.turn => ScanMoves(g, j) = <<>>

C20_Step ==
  (Applied /\ state' = "Gameplay" /\ ~panicked') =>
    \A i \in 0..63 :
      Scanned(Game', i) => ScanMoves(Game', i) = SelectionMoves(Game', i)

C20_ScanMatchesSelection == [][C20_Step]_vars

(***************************************************************************)
(* C21.  In every position of a game, find_moves called with the cursor on *)
(* any square of the side to move (the squares it is called on), and       *)
(* check_for_mate, when they return, leave the board                       *)
(* (piece, colour and valid-move flag of every square), king_coords, turn, *)
(* the castling rights, the en-passant target and the cursor as they were  *)
(* before the call.                                                        *)
(***************************************************************************)
SameFrame(r, g) ==
  /\ r.board = g.board
  /\ r.king_coords = g.king_coords
  /\ r.turn = g.turn
  /\ r.castling_rights = g.castling_rights
  /\ r.en_passant = g.en_passant
  /\ r.x = g.x
  /\ r.y = g.y

Returned(r, g) == ~r.panicked => SameFrame(r, g)

CursorOn(g, i) == [g EXCEPT !.x = i % 8, !.y = i \div 8]

C21_CallsKeepFrame ==
  (state \in {"Gameplay", "PromotePawn"} /\ ~panicked) =>
    /\ \A i \in 0..63 :
         board[i \div 8][i % 8].color = turn =>
           Returned(find_moves(CursorOn(Game, i)), CursorOn(Game, i))
    /\ Returned(check_for_mate(Game), Game)

(***************************************************************************)
(* C22.  In every position of a game in Gameplay and for every square,     *)
(* is_attacked with the side to move defending is true exactly when some   *)
(* piece of the other side attacks the square under the rules of chess: a  *)
(* king on an adjacent square, a knight one L-step away, a pawn whose      *)
(* forward capture lands on the square, or a queen, rook or bishop along   *)
(* one of its lines with only empty squares in between.                    *)
(***************************************************************************)
C22_AttackedIffRuleAttacked ==
  (GameplayLoop /\ ~panicked) =>
    \A sx \in Coords, sy \in Coords :
      is_attacked(Game, sx, sy) = RuleAttacked(board, sx, sy, 1 - turn)

\* White to move with a black knight on c6: d4 is attacked by it alone.
C22_Witness ==
  /\ turn = 0
  /\ Content(board[2][2]) = <<"Knight", 1>>
  /\ is_attacked(Game, 3, 4)
  /\ \A px \in Coords, py \in Coords :
       (board[py][px].color = 1 /\ RuleAttacks(board, px, py, 3, 4))
         => <<px, py>> = <<2, 2>>

(***************************************************************************)
(* C23.  The sixteen ray scans of one is_attacked call, taken by the       *)
(* threads in any of the orders and interleavings of SpecRays, write       *)
(* nothing of the game (board, turn, king coordinates, every field of the  *)
(* game is left as it was), and the value the call returns equals the      *)
(* value of the sequential evaluation in declaration order.                *)
(***************************************************************************)
RayRunning == ray_target # <<>> /\ ray_result = "none"

C23_Returned ==
  ray_result # "none" =>
    (ray_result = "true") = is_attacked(Game, ray_target[1], ray_target[2])

C23_Step == RayRunning => UNCHANGED gameVars

C23_RaysOrderIndependent == [](C23_Returned) /\ [][C23_Step]_vars

\* A call has returned true although the last direction was taken first.
C23_Witness ==
  /\ ray_result = "true"
  /\ ray_hits = 1
  /\ is_attacked(Game, ray_target[1], ray_target[2])

(***************************************************************************)
(* C24.  Whenever the king of the side to move is selected and a castling  *)
(* destination (two files from the king on its row) is in its move list,   *)
(* the mover holds the castling right of that wing and every intervening   *)
(* square, two toward the h-file for the king side, three toward the       *)
(* a-file for the queen side, is empty and not attacked by the opponent.   *)
(***************************************************************************)
WingStep(side) == IF side = 0 THEN 1 ELSE -1

WingSquares(side) == IF side = 0 THEN 1..2 ELSE 1..3

CastlingListed(side) ==
  /\ Selecting
  /\ board[y][x].piece = "King"
  /\ Contains(moves, <<x + 2 * WingStep(side), y>>)

WingClear(side) ==
  \A k \in WingSquares(side) :
    /\ OnBoard(x + k * WingStep(side), y)
    /\ board[y][x + k * WingStep(side)].piece = "Empty"
    /\ ~RuleAttacked(board, x + k * WingStep(side), y, 1 - turn)

C24_CastlingNeedsRightAndClearPath ==
  \A side \in 0..1 :
    CastlingListed(side) => castling_rights[turn][side] /\ WingClear(side)

\* White's king is selected with only the king-side castling listed: the
\* queen-side squares are still occupied.
C24_Witness ==
  /\ turn = 0
  /\ CastlingListed(0)
  /\ ~CastlingListed(1)
  /\ castling_rights[0][1]
  /\ ~WingClear(1)

(***************************************************************************)
(* C25.  An applied move changes the castling rights only by clearing      *)
(* them: a King move clears both rights of the mover; a Rook move starting *)
(* on file H clears the mover's king-side right and leaves its queen-side  *)
(* right; a Rook move starting on file A clears the mover's queen-side     *)
(* right and leaves its king-side right; every other move leaves all four  *)
(* rights unchanged; the opponent's rights are never changed and no right  *)
(* is set back to true.                                                    *)
(***************************************************************************)
RightsAfter(cr, mover, piece, from_x) ==
  [c \in 0..1 |->
    [i \in 0..1 |->
      IF c # mover THEN cr[c][i]
      ELSE IF piece = "King" THEN FALSE
      ELSE IF piece = "Rook" /\ from_x = 7 /\ i = 0 THEN FALSE
      ELSE IF piece = "Rook" /\ from_x = 0 /\ i = 1 THEN FALSE
      ELSE cr[c][i]]]

C25_Step ==
  Applied =>
    /\ castling_rights' =
         RightsAfter(castling_rights, turn, Origin.piece, selected_piece[1])
    /\ \A c \in 0..1, i \in 0..1 : castling_rights'[c][i] => castling_rights[c][i]

C25_CastlingRightsOnlyCleared == [][C25_Step]_vars

\* White's rook has left h1 for h2: of White's rights the king-side one
\* alone is cleared; Black's king has moved before.
C25_Witness ==
  /\ Content(board[6][7]) = <<"Rook", 0>>
  /\ board[7][7].piece = "Empty"
  /\ turn = 1
  /\ selected_piece = <<7, 7>>
  /\ <<x, y>> = <<7, 6>>
  /\ ~castling_rights[0][0]
  /\ castling_rights[0][1]
  /\ ~castling_rights[1][0] /\ ~castling_rights[1][1]

(***************************************************************************)
(* C26.  The castling test does not look at the king's own square: when    *)
(* the king of the side to move is selected while it is attacked           *)
(* (king_in_check is true), the mover holds the right of a wing and the    *)
(* intervening squares of that wing are empty and not attacked, the        *)
(* castling destination of that wing is in the move list.  Such a position *)
(* is reachable (C26_Witness).                                             *)
(***************************************************************************)
C26_CastlingListedInCheck ==
  \A side \in 0..1 :
    ( /\ Selecting
      /\ board[y][x].piece = "King"
      /\ king_in_check
      /\ castling_rights[turn][side]
      /\ WingClear(side) )
    => CastlingListed(side)

\* The selected king is attacked and a castling destination is listed.
C26_Witness ==
  /\ king_in_check
  /\ RuleAttacked(board, x, y, 1 - turn)
  /\ \E side \in 0..1 : CastlingListed(side)

(***************************************************************************)
(* C27.  Whenever a piece of the side to move has been selected in         *)
(* Gameplay (find_moves has run from handle_click_or_enter), the stored    *)
(* king_in_check flag equals is_attacked evaluated on the square of the    *)
(* king of the side to move in the current position.                       *)
(***************************************************************************)
C27_CheckFlagCurrent ==
  Selecting =>
    \A k \in KingSquares(board, turn) :
      king_in_check = is_attacked(Game, k[1], k[2])

(***************************************************************************)
(* C28.  Whenever a pawn of the side to move is selected and the square    *)
(* two rows ahead of it is in its move list, the pawn stands on its side's *)
(* starting rank and both the square directly in front of it and the       *)
(* destination are empty.                                                  *)
(***************************************************************************)
Ahead(c) == IF c = 0 THEN -1 ELSE 1

StartRank(c) == IF c = 0 THEN 6 ELSE 1

C28_DoubleStepOverEmpty ==
  ( /\ Selecting
    /\ board[y][x].piece = "Pawn"
    /\ Contains(moves, <<x, y + 2 * Ahead(turn)>>) )
  => /\ y = StartRank(turn)
     /\ board[y + Ahead(turn)][x].piece = "Empty"
     /\ board[y + 2 * Ahead(turn)][x].piece = "Empty"

(***************************************************************************)
(* C29.  Whenever the king of the side to move is selected and a castling  *)
(* destination is in its move list, the corner square of that wing on the  *)
(* king's row holds a Rook of the mover's colour; and no applied move      *)
(* increases the number of pieces of either colour on the board.           *)
(***************************************************************************)
Corner(side) == IF side = 0 THEN 7 ELSE 0

PieceCount(b, c) ==
  Cardinality({sq \in Coords \X Coords : b[sq[2]][sq[1]].color = c})

C29_Listed ==
  \A side \in 0..1 :
    CastlingListed(side) => Content(board[y][Corner(side)]) = <<"Rook", turn>>

C29_Step ==
  Applied => \A c \in 0..1 : PieceCount(board', c) <= PieceCount(board, c)

C29_CastlingNeedsRook == [](C29_Listed) /\ [][C29_Step]_vars

(***************************************************************************)
(* C30.  Whenever a pawn of the side to move is selected while its king is *)
(* attacked by an enemy pawn that has just advanced two ranks, the         *)
(* selected pawn stands beside that pawn, and capturing it en passant      *)
(* leaves the mover's king unattacked, the en-passant destination is in    *)
(* the selected pawn's move list.                                          *)
(***************************************************************************)
EnPassantResolvesCheck ==
  /\ Selecting
  /\ board[y][x].piece = "Pawn"
  /\ king_in_check
  /\ en_passant # <<>>
  /\ en_passant[1][2] = y + Ahead(turn)
  /\ Abs(en_passant[1][1] - x) = 1
  /\ Content(board[y][en_passant[1][1]]) = <<"Pawn", 1 - turn>>
  /\ \A k \in KingSquares(board, turn) :
       /\ RuleAttacks(board, en_passant[1][1], y, k[1], k[2])
       /\ ~RuleAttacked(RuleAfterMove(board, <<x, y>>, en_passant[1]),
                        k[1], k[2], 1 - turn)

C30_EnPassantOutOfCheck ==
  EnPassantResolvesCheck => Contains(moves, en_passant[1])

(***************************************************************************)
(* C31.  In every Gameplay position reached by moves, board edits or FEN   *)
(* decoding, a King of the side to move whose side holds a castling right  *)
(* stands on file e of its home row, and find_moves on its square returns  *)
(* (the castling scan indexes no column outside 0..7).                     *)
(***************************************************************************)
HoldsRight(c) == castling_rights[c][0] \/ castling_rights[c][1]

C31_CastlingKingAtHome ==
  (state = "Gameplay" /\ ~panicked /\ HoldsRight(turn)) =>
    \A k \in KingSquares(board, turn) :
      /\ k = <<4, HomeRank(turn)>>
      /\ ~find_moves([Game EXCEPT !.x = k[1], !.y = k[2]]).panicked

(***************************************************************************)
(* C32.  In every reachable state each of the 64 squares has colour None   *)
(* (2) exactly when its piece is Empty, and a non-empty square carries the *)
(* direction list Square::new gives its piece kind and colour.  The same   *)
(* holds on the boards the legality filter builds while a piece is         *)
(* selected: the origin emptied and the piece set on a listed destination. *)
(***************************************************************************)
WellFormedSquare(sq) ==
  /\ (sq.color = 2) <=> (sq.piece = "Empty")
  /\ sq.color \in 0..2
  /\ sq.piece # "Empty" => sq.moves = SquareMoves(sq.piece, sq.color)

WellFormedBoard(b) ==
  \A r \in Coords, c \in Coords : WellFormedSquare(b[r][c])

SimulationBoards ==
  IF Selecting
  THEN {[empty_square(board, x, y) EXCEPT ![moves[i][2]][moves[i][1]] =
           board[y][x]] : i \in 1..Len(moves)}
  ELSE {}

C32_SquaresWellFormed ==
  /\ WellFormedBoard(board)
  /\ \A b \in SimulationBoards : WellFormedBoard(b)

\* The editor has just set a piece of the chosen kind on a square that did
\* not hold that kind at the start.
C32_Witness ==
  /\ state = "EditBoard"
  /\ free > 0
  /\ piece_to_place # "Empty"
  /\ board[y][x].piece = piece_to_place
  /\ board[y][x].color \in 0..1
  /\ init_board[y][x].piece # piece_to_place

====
